---------------------------- MODULE Spec2Model ----------------------------
(***************************************************************************)
(* A model of the TMC2209 stepper-driver serial core of loki_firmware      *)
(* (src/Core/Inc/robot.hpp): the cached configuration registers, the       *)
(* setters and getters, the datagram codec and the half-duplex transaction *)
(* engine, together with the chip and the serial line they talk to.        *)
(*                                                                         *)
(* Representation.  A 32-bit register value is a tuple of four bytes,      *)
(* least-significant byte first (<<b0, b1, b2, b3>> stands for             *)
(* b0 + 2^8 b1 + 2^16 b2 + 2^24 b3), because TLC's integers are 32-bit     *)
(* signed.  A bit-field of a register union is a (position, width) pair    *)
(* read and written with GetField / SetField.  A datagram is the tuple of  *)
(* its bytes in the order the send loops transmit them.                    *)
(***************************************************************************)
EXTENDS Integers, Sequences, FiniteSets, TLC

-----------------------------------------------------------------------------
(* Bounds of the model *)

\* API calls in one run, setup included
MaxOps == 3
\* calls of setup in one run
MaxSetups == 2
\* calls other than setup in a run in which a transaction has failed
MaxCallsAfterFailure == 1
\* the line misbehaves (a transmit call fails, a read is not answered with
\* the chip's whole reply) only during the first MaxFaultyOps calls of a run
MaxFaultyOps == 2
\* the transmit call (counted within one API call) that may fail is one of
\* the first MaxFailAt
MaxFailAt == 2
\* bytes the receive path holds before further bytes are lost to overrun
MaxRx == 12
\* calls made on the instances that share the line, in one run
MaxBusCalls == 2
\* transmit calls that fail on the shared line, in one run
MaxBusFailures == 1
\* the microstep requests made are 0..MaxMicrostepsRequest and the values
\* around the larger powers of two
MaxMicrostepsRequest == 40
\* calls made after setup where only the microstep resolution is set and got
MaxMicrostepsCalls == 2
\* bytes that reach the receive path from no transaction of the instance
\* (noise, the end of a reply that came late), in one run
MaxStrayBytes == 2
\* datagrams written and read back in one run of the codec
MaxCodecCalls == 1

-----------------------------------------------------------------------------
(* Constants of peripherals/TMC2209.hpp *)

BITS_PER_BYTE == 8
BYTE_MAX_VALUE == 255
DATA_SIZE == 4
WRITE_READ_REPLY_DATAGRAM_SIZE == 8
READ_REQUEST_DATAGRAM_SIZE == 4
SYNC == 5
RW_READ == 0
RW_WRITE == 1
SERIAL_ADDRESS_0 == 0
VERSION == 33

ADDRESS_GCONF == 0
ADDRESS_GSTAT == 1
ADDRESS_IFCNT == 2
ADDRESS_REPLYDELAY == 3
ADDRESS_IOIN == 6
ADDRESS_IHOLD_IRUN == 16
ADDRESS_TPOWERDOWN == 17
ADDRESS_TSTEP == 18
ADDRESS_TPWMTHRS == 19
ADDRESS_TCOOLTHRS == 20
ADDRESS_VACTUAL == 34
ADDRESS_SGTHRS == 64
ADDRESS_SG_RESULT == 65
ADDRESS_COOLCONF == 66
ADDRESS_MSCNT == 106
ADDRESS_CHOPCONF == 108
ADDRESS_DRV_STATUS == 111
ADDRESS_PWMCONF == 112
ADDRESS_PWM_SCALE == 113
ADDRESS_PWM_AUTO == 114

PERCENT_MIN == 0
PERCENT_MAX == 100
CURRENT_SETTING_MIN == 0
CURRENT_SETTING_MAX == 31
HOLD_DELAY_MIN == 0
HOLD_DELAY_MAX == 15
IHOLD_DEFAULT == 16
IRUN_DEFAULT == 31
IHOLDDELAY_DEFAULT == 1
REPLY_DELAY_MAX == 15
TPOWERDOWN_DEFAULT == 20
TPWMTHRS_DEFAULT == 0
VACTUAL_DEFAULT == 0
VACTUAL_STEP_DIR_INTERFACE == 0
TCOOLTHRS_DEFAULT == 0
SGTHRS_DEFAULT == 0
COOLCONF_DEFAULT == 0
TBL_DEFAULT == 2
HEND_DEFAULT == 0
HSTART_DEFAULT == 5
TOFF_DEFAULT == 3
TOFF_DISABLE == 0
MRES_256 == 0
MRES_128 == 1
MRES_064 == 2
MRES_032 == 3
MRES_016 == 4
MRES_008 == 5
MRES_004 == 6
MRES_002 == 7
MRES_001 == 8
DOUBLE_EDGE_DISABLE == 0
DOUBLE_EDGE_ENABLE == 1
STEPPER_DRIVER_FEATURE_OFF == 0
STEPPER_DRIVER_FEATURE_ON == 1
MICROSTEPS_PER_STEP_MIN == 1
MICROSTEPS_PER_STEP_MAX == 256
SEIMIN_UPPER_CURRENT_LIMIT == 20
SEIMIN_UPPER_SETTING == 0
SEIMIN_LOWER_SETTING == 1
SEMIN_OFF == 0
SEMIN_MIN == 1
SEMIN_MAX == 15
SEMAX_MIN == 0
SEMAX_MAX == 15
ECHO_DELAY_MAX_MICROSECONDS == 4000
REPLY_DELAY_MAX_MICROSECONDS == 10000
\* 0x10000053 and 0xC10D0024, least-significant byte first
CHOPPER_CONFIG_DEFAULT == <<83, 0, 0, 16>>
PWM_CONFIG_DEFAULT == <<36, 0, 13, 193>>

-----------------------------------------------------------------------------
(* 32-bit words as byte tuples; bit-fields *)

Byte == 0..BYTE_MAX_VALUE
ZeroWord == <<0, 0, 0, 0>>
OnesWord == <<255, 255, 255, 255>>

Pow2(n) == 2^n

\* the word of a non-negative integer below 2^31 (a uint8_t, uint16_t or
\* small uint32_t argument converted to uint32_t)
W32(n) ==
  <<n % 256, (n \div 256) % 256, (n \div 65536) % 256, (n \div 16777216) % 256>>

\* the word of an int32_t converted to uint32_t (two's complement)
W32s(n) ==
  IF n >= 0 THEN W32(n)
  ELSE LET c == W32(-(n + 1))
       IN <<255 - c[1], 255 - c[2], 255 - c[3], 255 - c[4]>>

\* bit i (0..31) of word w
Bit(w, i) == (w[(i \div BITS_PER_BYTE) + 1] \div Pow2(i % BITS_PER_BYTE)) % 2

\* the value of the bit-field of w that starts at bit pos and is width wide
\* (no field read here is wider than 16 bits)
GetField(w, pos, width) ==
  LET B(k) == IF k < width THEN Bit(w, pos + k) * Pow2(k) ELSE 0
  IN (((B(0) + B(1)) + (B(2) + B(3))) + ((B(4) + B(5)) + (B(6) + B(7))))
     + (((B(8) + B(9)) + (B(10) + B(11))) + ((B(12) + B(13)) + (B(14) + B(15))))

\* w with that bit-field assigned v (an assignment to a bit-field keeps the
\* low width bits of v and leaves every other bit of the union alone)
SetField(w, pos, width, v) ==
  LET NewBit(i) == IF i >= pos /\ i < pos + width
                     THEN (v \div Pow2(i - pos)) % 2
                     ELSE Bit(w, i)
      B(j, k) == NewBit(BITS_PER_BYTE * j + k) * Pow2(k)
      Sum(j) == ((B(j, 0) + B(j, 1)) + (B(j, 2) + B(j, 3)))
                + ((B(j, 4) + B(j, 5)) + (B(j, 6) + B(j, 7)))
  IN <<Sum(0), Sum(1), Sum(2), Sum(3)>>

\* bit-field layouts (position, width) of the register unions
F_i_scale_analog == <<0, 1>>
F_internal_rsense == <<1, 1>>
F_enable_spread_cycle == <<2, 1>>
F_shaft == <<3, 1>>
F_pdn_disable == <<6, 1>>
F_mstep_reg_select == <<7, 1>>
F_multistep_filt == <<8, 1>>
F_ihold == <<0, 5>>
F_irun == <<8, 5>>
F_iholddelay == <<16, 4>>
F_toff == <<0, 4>>
F_hstart == <<4, 3>>
F_hend == <<7, 4>>
F_tbl == <<15, 2>>
F_mres == <<24, 4>>
F_double_edge == <<29, 1>>
F_pwm_offset == <<0, 8>>
F_pwm_grad == <<8, 8>>
F_pwm_autoscale == <<18, 1>>
F_pwm_autograd == <<19, 1>>
F_freewheel == <<20, 2>>
F_semin == <<0, 4>>
F_seup == <<5, 2>>
F_semax == <<8, 4>>
F_sedn == <<13, 2>>
F_seimin == <<15, 1>>
F_replydelay == <<8, 4>>
F_gstat_reset == <<0, 1>>
F_gstat_drv_err == <<1, 1>>
F_enn == <<0, 1>>
F_version == <<24, 8>>

Get(w, f) == GetField(w, f[1], f[2])
Set(w, f, v) == SetField(w, f[1], f[2], v)

\* cool_config_ is a 16-bit union: only its low 16 bits exist
Low16(w) == <<w[1], w[2], 0, 0>>

-----------------------------------------------------------------------------
(* Bit utilities and the datagram codec *)

\* Stmt continues from the value v, and v is computed before Stmt is (the
\* test makes TLC compute v here; it defers an operator's arguments otherwise)
After(v, Stmt(_)) == IF v = v THEN Stmt(v) ELSE v

\* The n statements of a method body run in order from the state m:
\* Stmt(i, s) is the state that statement i leaves when it starts from s
Sequence(Stmt(_, _), n, m) ==
  LET RECURSIVE Loop(_, _)
      Loop(i, s) == CASE i > n -> s
                      [] s = s -> Loop(i + 1, Stmt(i, s))
  IN Loop(1, m)

\* bitwise exclusive-or and or of two bytes
Xor8(a, b) ==
  LET B(k) == (((a \div Pow2(k)) + (b \div Pow2(k))) % 2) * Pow2(k)
  IN ((B(0) + B(1)) + (B(2) + B(3))) + ((B(4) + B(5)) + (B(6) + B(7)))

Or8(a, b) ==
  LET B(k) == IF (a \div Pow2(k)) % 2 = 1 \/ (b \div Pow2(k)) % 2 = 1
                THEN Pow2(k) ELSE 0
  IN ((B(0) + B(1)) + (B(2) + B(3))) + ((B(4) + B(5)) + (B(6) + B(7)))

\* a constrain_ that has no upper limit
constrain_FromBelowOnly(value, low, high) ==
  IF value < low THEN low ELSE value

\* uint32_t constrain_(value, low, high)
constrain_(value, low, high) ==
  IF value < low THEN low ELSE IF value > high THEN high ELSE value

\* T map(x, in_min, in_max, out_min, out_max) at T = uint8_t, U = long:
\* the operands are non-negative here, so C's division truncates like \div
map(x, in_min, in_max, out_min, out_max) ==
  LET result == ((x - in_min) * (out_max - out_min)) \div (in_max - in_min) + out_min
  IN IF result < 0 THEN 0
     ELSE IF result > BYTE_MAX_VALUE THEN BYTE_MAX_VALUE
     ELSE result

percentToCurrentSetting(percent) ==
  map(constrain_(percent, PERCENT_MIN, PERCENT_MAX), PERCENT_MIN, PERCENT_MAX,
      CURRENT_SETTING_MIN, CURRENT_SETTING_MAX)

percentToHoldDelaySetting(percent) ==
  map(constrain_(percent, PERCENT_MIN, PERCENT_MAX), PERCENT_MIN, PERCENT_MAX,
      HOLD_DELAY_MIN, HOLD_DELAY_MAX)

\* a reversal that moves every byte one place down, the lowest to the top
reverseDataRotating(data) ==
  LET RECURSIVE Loop(_, _)
      Loop(i, reversed_data) ==
        IF i = DATA_SIZE THEN reversed_data
        ELSE Loop(i + 1,
                  [reversed_data EXCEPT
                     ![i + 1] = Or8(@, data[((i + 1) % DATA_SIZE) + 1])])
  IN Loop(0, ZeroWord)

\* reverseData: for i = 0..3,
\*   reversed_data |= ((data >> (3 - i) * 8) & 0xFF) << (i * 8)
reverseData(data) ==
  LET RECURSIVE Loop(_, _)
      Loop(i, reversed_data) ==
        IF i = DATA_SIZE THEN reversed_data
        ELSE Loop(i + 1,
                  [reversed_data EXCEPT
                     ![i + 1] = Or8(@, data[(DATA_SIZE - i - 1) + 1])])
  IN Loop(0, ZeroWord)

\* a CRC that takes the bits of each byte most-significant first
calculateCrcMostSignificantBitFirst(datagram, datagram_size) ==
  LET RECURSIVE Bits(_, _, _)
      Bits(crc, byte, j) ==
        CASE j = BITS_PER_BYTE -> crc
          [] j < BITS_PER_BYTE /\ (crc \div 128) # (byte \div 128) ->
               Bits(Xor8((crc * 2) % 256, 7), (byte * 2) % 256, j + 1)
          [] OTHER -> Bits((crc * 2) % 256, (byte * 2) % 256, j + 1)
      RECURSIVE Bytes(_, _)
      Bytes(crc, i) ==
        CASE i >= datagram_size - 1 -> crc
          [] crc = crc -> Bytes(Bits(crc, datagram[i + 1], 0), i + 1)
  IN Bytes(0, 0)

\* calculateCrc over the first datagram_size - 1 bytes of the datagram
calculateCrc(datagram, datagram_size) ==
  LET RECURSIVE Bits(_, _, _)
      Bits(crc, byte, j) ==
        CASE j = BITS_PER_BYTE -> crc
          [] j < BITS_PER_BYTE /\ (crc \div 128) # (byte % 2) ->
               Bits(Xor8((crc * 2) % 256, 7), byte \div 2, j + 1)
          [] OTHER -> Bits((crc * 2) % 256, byte \div 2, j + 1)
      RECURSIVE Bytes(_, _)
      Bytes(crc, i) ==
        CASE i >= datagram_size - 1 -> crc
          [] crc = crc -> Bytes(Bits(crc, datagram[i + 1], 0), i + 1)
  IN Bytes(0, 0)

\* the bytes of the WriteReadReplyDatagram that write() builds:
\* sync:4 reserved:4 | serial_address:8 | register_address:7 rw:1 | data:32 | crc:8
WriteDatagram(serial_address, register_address, data) ==
  LET rev == reverseData(data)
      body == <<SYNC % 16, serial_address % 256,
                (register_address % 128) + 128 * RW_WRITE,
                rev[1], rev[2], rev[3], rev[4], 0>>
  IN [body EXCEPT ![WRITE_READ_REPLY_DATAGRAM_SIZE] =
        calculateCrc(body, WRITE_READ_REPLY_DATAGRAM_SIZE)]

\* the bytes of the ReadRequestDatagram that read() builds:
\* sync:4 reserved:4 | serial_address:8 | register_address:7 rw:1 | crc:8
ReadRequestDatagram(serial_address, register_address) ==
  LET body == <<SYNC % 16, serial_address % 256,
                (register_address % 128) + 128 * RW_READ, 0>>
  IN [body EXCEPT ![READ_REQUEST_DATAGRAM_SIZE] =
        calculateCrc(body, READ_REQUEST_DATAGRAM_SIZE)]

\* a decoding that hands back the data field in the order of the wire
DecodeReplyInWireOrder(reply_buf) ==
  <<reply_buf[4], reply_buf[5], reply_buf[6], reply_buf[7]>>

\* read(): the reply buffer is reassembled into the reply datagram, whose
\* data field is bytes 3..6, and the field is byte-reversed
DecodeReply(reply_buf) ==
  reverseData(<<reply_buf[4], reply_buf[5], reply_buf[6], reply_buf[7]>>)

-----------------------------------------------------------------------------
(* The driver instance, the chip and the serial line *)

VARIABLES
  \* fields of the TMC2209 instance
  global_config_, chopper_config_, pwm_config_, driver_current_, cool_config_,
  cool_step_enabled_, hardware_enable_port_, serial_address_, toff_, huart_,
  \* the chip and the line: the value last written to each configuration
  \* register, the bytes pending in the receive path, the level of the
  \* enable line, whether the line echoes what is transmitted
  hw, rx, enable_pin, echo_bus,
  \* the last API call: its name, its argument and what it returned (each
  \* kept under the call's name, the calls differing in their types), the
  \* transactions it made, the cached registers before it
  last_call, last_arg, ret, log, pre,
  \* what happened so far in the run
  tx_failed, rd_failed, calls, setups,
  \* the instances that share one line: the instance whose method the thread
  \* of control is in, the transaction of each instance, whose bytes went
  \* over the line (in order), the calls and the failed transmit calls so far
  caller, bus_txn, wire, bus_calls, bus_failures

vars == <<global_config_, chopper_config_, pwm_config_, driver_current_,
          cool_config_, cool_step_enabled_, hardware_enable_port_,
          serial_address_, toff_, huart_, hw, rx, enable_pin, echo_bus,
          last_call, last_arg, ret, log, pre, tx_failed, rd_failed, calls, setups,
          caller, bus_txn, wire, bus_calls, bus_failures>>

\* one instance and its line
instance_vars ==
  <<global_config_, chopper_config_, pwm_config_, driver_current_,
    cool_config_, cool_step_enabled_, hardware_enable_port_,
    serial_address_, toff_, huart_, hw, rx, enable_pin, echo_bus,
    last_call, last_arg, ret, log, pre, tx_failed, rd_failed, calls, setups>>

\* the instances that share one line
bus_vars == <<caller, bus_txn, wire, bus_calls, bus_failures>>

\* TMC2209 stepper1_, stepper2_, stepper3_: the instances of Robot, all on
\* tmc_uart_
Steppers == {"stepper1_", "stepper2_", "stepper3_"}

\* the thread of control is in no method of an instance
NoCaller == "none"

\* an instance that has made no transaction yet
IdleTxn ==
  [kind |-> "none", stage |-> "idle", id |-> 0, sent |-> 0, whole |-> TRUE, got |-> 0]

\* a configuration register no write datagram has reached yet
NoValue == <<>>

\* the five configuration registers the instance caches
CfgAddrs == {ADDRESS_GCONF, ADDRESS_CHOPCONF, ADDRESS_PWMCONF,
             ADDRESS_IHOLD_IRUN, ADDRESS_COOLCONF}

\* what the chip answers to a read request, as far as the line delivers it:
\* nothing; its reply only after the reply window; the first half of its
\* reply; its whole reply with the register's content; a whole reply with an
\* all-ones payload
ReplyKinds == {"silent", "late", "short", "chip", "ones"}

\* the content of the chip's register: what was last written to it, the
\* version signature for IOIN
ChipValue(m, register_address) ==
  IF register_address \in CfgAddrs /\ m.hw[register_address] # NoValue
    THEN m.hw[register_address]
  ELSE IF register_address = ADDRESS_IOIN THEN Set(ZeroWord, F_version, VERSION)
  ELSE ZeroWord

\* the reply datagram of the chip: sync, master address, register, the
\* payload most-significant byte first, CRC
ReplyDatagram(register_address, payload) ==
  LET body == <<SYNC, 255, register_address % 128,
                payload[4], payload[3], payload[2], payload[1], 0>>
  IN [body EXCEPT ![WRITE_READ_REPLY_DATAGRAM_SIZE] =
        calculateCrc(body, WRITE_READ_REPLY_DATAGRAM_SIZE)]

\* bytes arriving on the receive path; what does not fit is lost
Arrive(pending, bytes) ==
  SubSeq(pending \o bytes, 1,
         IF Len(pending) + Len(bytes) > MaxRx THEN MaxRx ELSE Len(pending) + Len(bytes))

\* HAL_UART_Transmit(huart_, &byte, 1, timeout): the status the line gives
\* this transmit call, and the line after it (an echoing line feeds a
\* transmitted byte back into the receive path)
HAL_UART_Transmit(m, byte) ==
  LET ok == (m.ntx + 1) # m.fail_at
  IN [ok |-> ok,
      m  |-> [m EXCEPT !.ntx = @ + 1,
                       !.tx_failed = @ \/ ~ok,
                       !.rx = IF ok /\ m.echo_bus THEN Arrive(@, <<byte>>) ELSE @]]

\* HAL_UART_Receive(huart_, buf, size, timeout): HAL_OK with the first size
\* bytes when that many arrive in the window, otherwise HAL_TIMEOUT having
\* consumed what did arrive.  The first m.stale bytes of the receive path
\* are those that were pending when the current read transaction began;
\* stale is how many of them this call put into buf
HAL_UART_Receive(m, size) ==
  LET n == IF Len(m.rx) >= size THEN size ELSE Len(m.rx)
      stale == IF m.stale < n THEN m.stale ELSE n
  IN [ok |-> Len(m.rx) >= size, buf |-> SubSeq(m.rx, 1, n), stale |-> stale,
      m |-> [m EXCEPT !.rx = SubSeq(m.rx, n + 1, Len(m.rx)),
                      !.stale = m.stale - stale]]

\* the chip takes a write datagram that reached it whole
ChipWrite(m, register_address, data, whole) ==
  IF whole /\ register_address \in CfgAddrs
    THEN [m EXCEPT !.hw[register_address] = data]
    ELSE m

\* the reply the line delivers to the read that is the (nrd+1)-th of the call
ReplyKind(m) == IF m.nrd = 0 THEN m.r1 ELSE m.r2

ReplyPayload(m, register_address) ==
  IF ReplyKind(m) = "ones" THEN OnesWord ELSE ChipValue(m, register_address)

\* the reply bytes that arrive within the echo and reply windows of a read
\* whose request went out whole
ChipReply(m, register_address) ==
  SubSeq(ReplyDatagram(register_address, ReplyPayload(m, register_address)), 1,
         CASE ReplyKind(m) \in {"chip", "ones"} -> WRITE_READ_REPLY_DATAGRAM_SIZE
           [] ReplyKind(m) = "short" -> WRITE_READ_REPLY_DATAGRAM_SIZE \div 2
           [] OTHER -> 0)

\* the reply bytes that arrive after the read has returned
LateReply(m, register_address) ==
  IF ReplyKind(m) = "late"
    THEN ReplyDatagram(register_address, ChipValue(m, register_address))
    ELSE <<>>

-----------------------------------------------------------------------------
(* The transaction engine *)

\* the record of one transaction: the bytes pending in the receive path when
\* it began, the bytes drained, the bytes still unread when the first byte
\* was handed to a transmit call, the transmit calls made (byte, status), the
\* receive calls made, the reply buffer and how many of its bytes were
\* pending before the transaction began; for a read whose request went out
\* whole, how the line answered it and the payload of the chip's reply
NewTxn(kind, register_address, data, pending) ==
  [kind |-> kind, reg |-> register_address, data |-> data, tx |-> <<>>,
   pending |-> pending, drained |-> 0, unread |-> pending,
   echo |-> "none", reply |-> "none", reply_buf |-> <<>>,
   reply_stale |-> 0, value |-> ZeroWord, led |-> FALSE,
   answer |-> "none", payload |-> ZeroWord]

\* every byte of the datagram was handed to a transmit call that succeeded
RequestSent(txn) ==
  /\ Len(txn.tx) = READ_REQUEST_DATAGRAM_SIZE
  /\ \A i \in DOMAIN txn.tx : txn.tx[i][2]

\* a send loop for writes that takes the echo of the datagram off the
\* receive path afterwards
sendDatagramUnidirectionalTakingEcho(m, datagram, datagram_size) ==
  LET RECURSIVE Loop(_, _)
      Loop(i, s) ==
        IF i = datagram_size THEN s
        ELSE LET byte == datagram[i + 1]
                 t == HAL_UART_Transmit(s, byte)
             IN Loop(i + 1, [t.m EXCEPT !.cur.tx = Append(@, <<byte, t.ok>>)])
      Echo(s) ==
        LET r == HAL_UART_Receive(s, datagram_size)
        IN [r.m EXCEPT !.cur.echo = IF r.ok THEN "ok" ELSE "timeout"]
  IN Echo(Loop(0, m))

sendDatagramUnidirectional(m, datagram, datagram_size) ==
  LET RECURSIVE Loop(_, _)
      Loop(i, s) ==
        IF i = datagram_size THEN s
        ELSE LET byte == datagram[i + 1]
                 t == HAL_UART_Transmit(s, byte)
             IN IF t.ok
                  THEN Loop(i + 1, [t.m EXCEPT !.cur.tx = Append(@, <<byte, TRUE>>)])
                  ELSE Loop(i + 1, [t.m EXCEPT !.cur.tx = Append(@, <<byte, FALSE>>),
                                               !.cur.led = TRUE])
  IN Loop(0, m)

\* a receive buffer that is left as it is found
LeaveReceiveBuffer(m) == m

\* the loop that clears the receive buffer: one one-byte receive with
\* timeout 0 for as long as RXNE is set
DrainReceiveBuffer(m) ==
  LET RECURSIVE Loop(_)
      Loop(s) ==
        IF Len(s.rx) = 0 THEN s
        ELSE Loop([HAL_UART_Receive(s, 1).m EXCEPT !.cur.drained = @ + 1])
  IN Loop(m)

\* the loop that writes the request datagram; it returns at the first
\* transmit that fails
TransmitRequest(m, datagram, datagram_size) ==
  LET RECURSIVE Loop(_, _)
      Loop(i, s) ==
        IF i = datagram_size THEN [m |-> s, sent |-> TRUE]
        ELSE LET byte == datagram[i + 1]
                 t == HAL_UART_Transmit(s, byte)
             IN IF ~t.ok
                  THEN [m |-> [t.m EXCEPT !.cur.tx = Append(@, <<byte, FALSE>>),
                                          !.cur.led = TRUE],
                        sent |-> FALSE]
                  ELSE Loop(i + 1, [t.m EXCEPT !.cur.tx = Append(@, <<byte, TRUE>>)])
  IN Loop(0, [m EXCEPT !.cur.unread = Len(m.rx)])

\* a wait for the echo that takes nothing off the receive path
ReceiveEchoTakingNothing(m, datagram_size) ==
  [m EXCEPT !.cur.echo = "ok"]

\* the wait for the bytes sent on TX to be echoed on RX
ReceiveEcho(m, datagram_size) ==
  LET r == HAL_UART_Receive(m, datagram_size)
  IN [r.m EXCEPT !.cur.echo = IF r.ok THEN "ok" ELSE "timeout"]

sendDatagramBidirectional(m, datagram, datagram_size) ==
  LET Echo(t) ==
        IF ~t.sent THEN t.m
        ELSE ReceiveEcho([t.m EXCEPT !.rx = Arrive(@, ChipReply(t.m, t.m.cur.reg))],
                         datagram_size)
  IN Echo(TransmitRequest(DrainReceiveBuffer(m), datagram, datagram_size))

\* the transaction that has ended joins the record of the call
Logged(m) == [m EXCEPT !.log = Append(@, m.cur)]

write(m, register_address, data) ==
  LET Sent(s) ==
        ChipWrite(s, register_address, data, \A i \in DOMAIN s.cur.tx : s.cur.tx[i][2])
      Send(write_datagram) ==
        Logged(Sent(sendDatagramUnidirectional(
                      [m EXCEPT !.cur = NewTxn("write", register_address, data, Len(m.rx))],
                      write_datagram, WRITE_READ_REPLY_DATAGRAM_SIZE)))
  IN After(WriteDatagram(m.serial_address_, register_address, data), Send)

\* a read that hands back all ones when the receive of the reply has failed
ReplyValueOnesOnFailure(ok, reply_buf) ==
  IF ~ok THEN OnesWord ELSE DecodeReply(reply_buf)

\* read(): the value returned once the receive of the reply has ended:
\* zero unless it ended HAL_OK, else the data field of the reply
ReplyValue(ok, reply_buf) == IF ~ok THEN ZeroWord ELSE DecodeReply(reply_buf)

\* read(): the value it returns is left in m.ret
read(m, register_address) ==
  LET Return(sent, r, value) ==
        [r.m EXCEPT !.cur.reply = IF r.ok THEN "ok" ELSE "timeout",
                    !.cur.reply_buf = r.buf,
                    !.cur.reply_stale = r.stale,
                    !.cur.value = value,
                    !.cur.answer = IF RequestSent(sent.cur) THEN ReplyKind(m) ELSE "none",
                    !.cur.payload = IF RequestSent(sent.cur)
                                      THEN ReplyPayload(m, register_address)
                                      ELSE ZeroWord,
                    !.rx = IF RequestSent(sent.cur)
                             THEN Arrive(@, LateReply(m, register_address))
                             ELSE @,
                    !.rd_failed = @ \/ ~r.ok \/ value # ChipValue(m, register_address),
                    !.nrd = @ + 1,
                    !.ret = value]
      Reply(sent, r) ==
        Return(sent, r, ReplyValue(r.ok, r.buf))
      Receive(sent) ==
        Reply(sent, HAL_UART_Receive(sent, WRITE_READ_REPLY_DATAGRAM_SIZE))
      Request(read_request_datagram) ==
        Logged(Receive(sendDatagramBidirectional(
                         [m EXCEPT !.cur = NewTxn("read", register_address, ZeroWord, Len(m.rx)),
                                   !.stale = Len(m.rx)],
                         read_request_datagram, READ_REQUEST_DATAGRAM_SIZE)))
  IN After(ReadRequestDatagram(m.serial_address_, register_address), Request)

-----------------------------------------------------------------------------
(* Unidirectional methods: the setters *)

writeStoredGlobalConfig(m) == write(m, ADDRESS_GCONF, m.global_config_)

\* the cached chopper configuration written to the wrong register
writeStoredChopperConfigToGlobalConfig(m) ==
  write(m, ADDRESS_GCONF, m.chopper_config_)

writeStoredChopperConfig(m) == write(m, ADDRESS_CHOPCONF, m.chopper_config_)

writeStoredPwmConfig(m) == write(m, ADDRESS_PWMCONF, m.pwm_config_)

\* writeStoredDriverCurrent() that rebuilds the cached COOLCONF from seimin
\* alone
writeStoredDriverCurrentLosingCoolConfig(m) ==
  LET CoolConf(s) ==
        IF s.cool_step_enabled_ THEN write(s, ADDRESS_COOLCONF, s.cool_config_)
        ELSE s
      Seimin(s) ==
        [s EXCEPT !.cool_config_ =
           Set(ZeroWord, F_seimin,
               IF Get(s.driver_current_, F_irun) >= SEIMIN_UPPER_CURRENT_LIMIT
                 THEN SEIMIN_UPPER_SETTING ELSE SEIMIN_LOWER_SETTING)]
  IN CoolConf(Seimin(write(m, ADDRESS_IHOLD_IRUN, m.driver_current_)))

writeStoredDriverCurrent(m) ==
  LET CoolConf(s) ==
        IF s.cool_step_enabled_ THEN write(s, ADDRESS_COOLCONF, s.cool_config_)
        ELSE s
      Seimin(s) ==
        [s EXCEPT !.cool_config_ =
           Set(@, F_seimin,
               IF Get(s.driver_current_, F_irun) >= SEIMIN_UPPER_CURRENT_LIMIT
                 THEN SEIMIN_UPPER_SETTING ELSE SEIMIN_LOWER_SETTING)]
  IN CoolConf(Seimin(write(m, ADDRESS_IHOLD_IRUN, m.driver_current_)))

setHardwareEnablePin(m) == [m EXCEPT !.hardware_enable_port_ = TRUE]

\* enable() that drives the enable line whether or not a pin was configured
enableDrivingLineAlways(m) ==
  LET m1 == [m EXCEPT !.enable_pin = "set"]
  IN writeStoredChopperConfig([m1 EXCEPT !.chopper_config_ = Set(@, F_toff, m.toff_)])

enable(m) ==
  LET m1 == IF m.hardware_enable_port_ THEN [m EXCEPT !.enable_pin = "set"] ELSE m
  IN writeStoredChopperConfig([m1 EXCEPT !.chopper_config_ = Set(@, F_toff, m.toff_)])

\* disable() that assigns the whole register where the code assigns toff
disableAssigningBytes(m) ==
  LET m1 == IF m.hardware_enable_port_ THEN [m EXCEPT !.enable_pin = "reset"] ELSE m
  IN writeStoredChopperConfig([m1 EXCEPT !.chopper_config_ = ZeroWord])

disable(m) ==
  LET m1 == IF m.hardware_enable_port_ THEN [m EXCEPT !.enable_pin = "reset"] ELSE m
  IN writeStoredChopperConfig(
       [m1 EXCEPT !.chopper_config_ = Set(@, F_toff, TOFF_DISABLE)])

setMicrostepsPerStepPowerOfTwo(m, exponent) ==
  LET mres == CASE exponent = 0 -> MRES_001
                [] exponent = 1 -> MRES_002
                [] exponent = 2 -> MRES_004
                [] exponent = 3 -> MRES_008
                [] exponent = 4 -> MRES_016
                [] exponent = 5 -> MRES_032
                [] exponent = 6 -> MRES_064
                [] exponent = 7 -> MRES_128
                [] OTHER -> MRES_256
  IN writeStoredChopperConfig([m EXCEPT !.chopper_config_ = Set(@, F_mres, mres)])

\* an exponent counted from the request itself, not from the request
\* shifted right by one
MicrostepExponentOfUnshifted(microsteps_per_step) ==
  LET RECURSIVE Count(_, _)
      Count(shifted, exponent) ==
        IF shifted > 0 THEN Count(shifted \div 2, exponent + 1) ELSE exponent
  IN Count(microsteps_per_step, 0)

\* the exponent setMicrostepsPerStep hands on: the constrained value is
\* overwritten by microsteps_per_step >> 1 before the shifts are counted
MicrostepExponent(microsteps_per_step) ==
  LET constrained == constrain_(microsteps_per_step, MICROSTEPS_PER_STEP_MIN,
                                MICROSTEPS_PER_STEP_MAX)
      RECURSIVE Count(_, _)
      Count(shifted, exponent) ==
        IF shifted > 0 THEN Count(shifted \div 2, exponent + 1) ELSE exponent
  IN Count(microsteps_per_step \div 2, 0)

setMicrostepsPerStep(m, microsteps_per_step) ==
  setMicrostepsPerStepPowerOfTwo(m, MicrostepExponent(microsteps_per_step) % 256)

setRunCurrent(m, percent) ==
  writeStoredDriverCurrent(
    [m EXCEPT !.driver_current_ = Set(@, F_irun, percentToCurrentSetting(percent))])

setHoldCurrent(m, percent) ==
  writeStoredDriverCurrent(
    [m EXCEPT !.driver_current_ = Set(@, F_ihold, percentToCurrentSetting(percent))])

setHoldDelay(m, percent) ==
  writeStoredDriverCurrent(
    [m EXCEPT !.driver_current_ =
       Set(@, F_iholddelay, percentToHoldDelaySetting(percent))])

setAllCurrentValues(m, run_current_percent, hold_current_percent, hold_delay_percent) ==
  writeStoredDriverCurrent(
    [m EXCEPT !.driver_current_ =
       Set(Set(Set(@, F_irun, percentToCurrentSetting(run_current_percent)),
               F_ihold, percentToCurrentSetting(hold_current_percent)),
           F_iholddelay, percentToHoldDelaySetting(hold_delay_percent))])

enableDoubleEdge(m) ==
  writeStoredChopperConfig(
    [m EXCEPT !.chopper_config_ = Set(@, F_double_edge, DOUBLE_EDGE_ENABLE)])

disableDoubleEdge(m) ==
  writeStoredChopperConfig(
    [m EXCEPT !.chopper_config_ = Set(@, F_double_edge, DOUBLE_EDGE_DISABLE)])

enableInverseMotorDirection(m) ==
  writeStoredGlobalConfig([m EXCEPT !.global_config_ = Set(@, F_shaft, 1)])

disableInverseMotorDirection(m) ==
  writeStoredGlobalConfig([m EXCEPT !.global_config_ = Set(@, F_shaft, 0)])

setStandstillMode(m, mode) ==
  writeStoredPwmConfig([m EXCEPT !.pwm_config_ = Set(@, F_freewheel, mode)])

enableAutomaticCurrentScaling(m) ==
  writeStoredPwmConfig(
    [m EXCEPT !.pwm_config_ = Set(@, F_pwm_autoscale, STEPPER_DRIVER_FEATURE_ON)])

disableAutomaticCurrentScaling(m) ==
  writeStoredPwmConfig(
    [m EXCEPT !.pwm_config_ = Set(@, F_pwm_autoscale, STEPPER_DRIVER_FEATURE_OFF)])

enableAutomaticGradientAdaptation(m) ==
  writeStoredPwmConfig(
    [m EXCEPT !.pwm_config_ = Set(@, F_pwm_autograd, STEPPER_DRIVER_FEATURE_ON)])

disableAutomaticGradientAdaptation(m) ==
  writeStoredPwmConfig(
    [m EXCEPT !.pwm_config_ = Set(@, F_pwm_autograd, STEPPER_DRIVER_FEATURE_OFF)])

setPwmOffset(m, pwm_amplitude) ==
  writeStoredPwmConfig([m EXCEPT !.pwm_config_ = Set(@, F_pwm_offset, pwm_amplitude)])

setPwmGradient(m, pwm_amplitude) ==
  writeStoredPwmConfig([m EXCEPT !.pwm_config_ = Set(@, F_pwm_grad, pwm_amplitude)])

setPowerDownDelay(m, power_down_delay) ==
  write(m, ADDRESS_TPOWERDOWN, W32(power_down_delay))

setReplyDelay(m, reply_delay) ==
  LET clamped == IF reply_delay > REPLY_DELAY_MAX THEN REPLY_DELAY_MAX ELSE reply_delay
  IN write(m, ADDRESS_REPLYDELAY, Set(ZeroWord, F_replydelay, clamped))

moveAtVelocity(m, microsteps_per_period) ==
  write(m, ADDRESS_VACTUAL, W32s(microsteps_per_period))

moveUsingStepDirInterface(m) ==
  write(m, ADDRESS_VACTUAL, W32(VACTUAL_STEP_DIR_INTERFACE))

enableStealthChop(m) ==
  writeStoredGlobalConfig([m EXCEPT !.global_config_ = Set(@, F_enable_spread_cycle, 0)])

disableStealthChop(m) ==
  writeStoredGlobalConfig([m EXCEPT !.global_config_ = Set(@, F_enable_spread_cycle, 1)])

setCoolStepDurationThreshold(m, duration_threshold) ==
  write(m, ADDRESS_TCOOLTHRS, W32(duration_threshold))

setStealthChopDurationThreshold(m, duration_threshold) ==
  write(m, ADDRESS_TPWMTHRS, W32(duration_threshold))

setStallGuardThreshold(m, stall_guard_threshold) ==
  write(m, ADDRESS_SGTHRS, W32(stall_guard_threshold))

enableCoolStep(m, lower_threshold, upper_threshold) ==
  LET m1 == [m EXCEPT !.cool_config_ =
               Set(Set(@, F_semin, constrain_(lower_threshold, SEMIN_MIN, SEMIN_MAX)),
                   F_semax, constrain_(upper_threshold, SEMAX_MIN, SEMAX_MAX))]
  IN [write(m1, ADDRESS_COOLCONF, m1.cool_config_) EXCEPT !.cool_step_enabled_ = TRUE]

disableCoolStep(m) ==
  LET m1 == [m EXCEPT !.cool_config_ = Set(@, F_semin, SEMIN_OFF)]
  IN [write(m1, ADDRESS_COOLCONF, m1.cool_config_) EXCEPT !.cool_step_enabled_ = FALSE]

setCoolStepCurrentIncrement(m, current_increment) ==
  LET m1 == [m EXCEPT !.cool_config_ = Set(@, F_seup, current_increment)]
  IN write(m1, ADDRESS_COOLCONF, m1.cool_config_)

setCoolStepMeasurementCount(m, measurement_count) ==
  LET m1 == [m EXCEPT !.cool_config_ = Set(@, F_sedn, measurement_count)]
  IN write(m1, ADDRESS_COOLCONF, m1.cool_config_)

enableAnalogCurrentScaling(m) ==
  writeStoredGlobalConfig([m EXCEPT !.global_config_ = Set(@, F_i_scale_analog, 1)])

disableAnalogCurrentScaling(m) ==
  writeStoredGlobalConfig([m EXCEPT !.global_config_ = Set(@, F_i_scale_analog, 0)])

useExternalSenseResistors(m) ==
  writeStoredGlobalConfig([m EXCEPT !.global_config_ = Set(@, F_internal_rsense, 0)])

useInternalSenseResistors(m) ==
  writeStoredGlobalConfig([m EXCEPT !.global_config_ = Set(@, F_internal_rsense, 1)])

clearReset(m) == write(m, ADDRESS_GSTAT, Set(ZeroWord, F_gstat_reset, 1))

clearDriveError(m) == write(m, ADDRESS_GSTAT, Set(ZeroWord, F_gstat_drv_err, 1))

-----------------------------------------------------------------------------
(* Bidirectional methods: the getters.  Each leaves its result in m.ret *)

currentSettingToPercent(current_setting) ==
  map(current_setting, CURRENT_SETTING_MIN, CURRENT_SETTING_MAX, PERCENT_MIN, PERCENT_MAX)

holdDelaySettingToPercent(hold_delay_setting) ==
  map(hold_delay_setting, HOLD_DELAY_MIN, HOLD_DELAY_MAX, PERCENT_MIN, PERCENT_MAX)

readGlobalConfigBytes(m) == read(m, ADDRESS_GCONF)

readChopperConfigBytes(m) == read(m, ADDRESS_CHOPCONF)

readPwmConfigBytes(m) == read(m, ADDRESS_PWMCONF)

\* the call returns value
Returning(m, value) == [m EXCEPT !.ret = value]

getVersion(m) ==
  LET Version(s) == Returning(s, Get(s.ret, F_version))
  IN Version(read(m, ADDRESS_IOIN))

\* isCommunicating() that takes any answer for the chip's
isCommunicatingWhateverVersion(m) ==
  LET Same(s) == Returning(s, TRUE)
  IN Same(getVersion(m))

isCommunicating(m) ==
  LET Same(s) == Returning(s, s.ret = VERSION)
  IN Same(getVersion(m))

\* serialOperationMode() that keeps what it read in the cached GCONF
serialOperationModeStoringBytes(m) ==
  LET Mode(s) == [s EXCEPT !.global_config_ = s.ret,
                           !.ret = Get(s.ret, F_pdn_disable) = 1]
  IN Mode(readGlobalConfigBytes(m))

serialOperationMode(m) ==
  LET Mode(s) == Returning(s, Get(s.ret, F_pdn_disable) = 1)
  IN Mode(readGlobalConfigBytes(m))

isSetupAndCommunicating(m) == serialOperationMode(m)

\* isCommunicating() && (not isSetupAndCommunicating()): the second read is
\* made only when the first found the chip communicating
isCommunicatingButNotSetup(m) ==
  LET Not(s) == Returning(s, ~s.ret)
      And(s) == IF ~s.ret THEN s ELSE Not(isSetupAndCommunicating(s))
  IN And(isCommunicating(m))

hardwareDisabled(m) ==
  LET Enn(s) == Returning(s, Get(s.ret, F_enn) = 1)
  IN Enn(read(m, ADDRESS_IOIN))

\* the value getMicrostepsPerStep computes from a cached chopper_config_
MicrostepsOf(chopper_config) ==
  LET mres == Get(chopper_config, F_mres)
      exponent == CASE mres = MRES_001 -> 0
                    [] mres = MRES_002 -> 1
                    [] mres = MRES_004 -> 2
                    [] mres = MRES_008 -> 3
                    [] mres = MRES_016 -> 4
                    [] mres = MRES_032 -> 5
                    [] mres = MRES_064 -> 6
                    [] mres = MRES_128 -> 7
                    [] OTHER -> 8
  IN Pow2(exponent)

getMicrostepsPerStep(m) == [m EXCEPT !.ret = MicrostepsOf(m.chopper_config_)]

readAndStoreRegisters(m) ==
  LET Stmt(i, s) ==
        CASE i = 1 -> readGlobalConfigBytes(s)
          [] i = 2 -> [s EXCEPT !.global_config_ = s.ret]
          [] i = 3 -> readChopperConfigBytes(s)
          [] i = 4 -> [s EXCEPT !.chopper_config_ = s.ret]
          [] i = 5 -> readPwmConfigBytes(s)
          [] i = 6 -> [s EXCEPT !.pwm_config_ = s.ret]
  IN Sequence(Stmt, 6, m)

getSettings(m) ==
  LET Communicating(s) ==
        Returning(s,
          [is_communicating |-> TRUE,
           is_setup |-> Get(s.global_config_, F_pdn_disable) = 1,
           software_enabled |-> Get(s.chopper_config_, F_toff) > TOFF_DISABLE,
           microsteps_per_step |-> MicrostepsOf(s.chopper_config_),
           inverse_motor_direction_enabled |-> Get(s.global_config_, F_shaft) = 1,
           stealth_chop_enabled |-> Get(s.global_config_, F_enable_spread_cycle) = 0,
           standstill_mode |-> Get(s.pwm_config_, F_freewheel),
           irun_percent |-> currentSettingToPercent(Get(s.driver_current_, F_irun)),
           irun_register_value |-> Get(s.driver_current_, F_irun),
           ihold_percent |-> currentSettingToPercent(Get(s.driver_current_, F_ihold)),
           ihold_register_value |-> Get(s.driver_current_, F_ihold),
           iholddelay_percent |->
             holdDelaySettingToPercent(Get(s.driver_current_, F_iholddelay)),
           iholddelay_register_value |-> Get(s.driver_current_, F_iholddelay),
           automatic_current_scaling_enabled |-> Get(s.pwm_config_, F_pwm_autoscale) = 1,
           automatic_gradient_adaptation_enabled |->
             Get(s.pwm_config_, F_pwm_autograd) = 1,
           pwm_offset |-> Get(s.pwm_config_, F_pwm_offset),
           pwm_gradient |-> Get(s.pwm_config_, F_pwm_grad),
           cool_step_enabled |-> s.cool_step_enabled_,
           analog_current_scaling_enabled |-> Get(s.global_config_, F_i_scale_analog) = 1,
           internal_sense_resistors_enabled |->
             Get(s.global_config_, F_internal_rsense) = 1])
      NotCommunicating(s) ==
        Returning(s,
          [is_communicating |-> FALSE,
           is_setup |-> FALSE,
           software_enabled |-> FALSE,
           microsteps_per_step |-> 0,
           inverse_motor_direction_enabled |-> FALSE,
           stealth_chop_enabled |-> FALSE,
           standstill_mode |-> Get(s.pwm_config_, F_freewheel),
           irun_percent |-> 0,
           irun_register_value |-> 0,
           ihold_percent |-> 0,
           ihold_register_value |-> 0,
           iholddelay_percent |-> 0,
           iholddelay_register_value |-> 0,
           automatic_current_scaling_enabled |-> FALSE,
           automatic_gradient_adaptation_enabled |-> FALSE,
           pwm_offset |-> 0,
           pwm_gradient |-> 0,
           cool_step_enabled |-> FALSE,
           analog_current_scaling_enabled |-> FALSE,
           internal_sense_resistors_enabled |-> FALSE])
      Settings(s) ==
        IF s.ret THEN Communicating(readAndStoreRegisters(s))
        ELSE NotCommunicating(s)
  IN Settings(isCommunicating(m))

getStatus(m) == read(m, ADDRESS_DRV_STATUS)

\* the value read, narrowed to the width low bits the return type keeps,
\* from bit pos on
ReturningField(m, pos, width) == Returning(m, GetField(m.ret, pos, width))

getGlobalStatus(m) == ReturningField(read(m, ADDRESS_GSTAT), 0, 3)

getInterfaceTransmissionCounter(m) == ReturningField(read(m, ADDRESS_IFCNT), 0, 8)

getInterstepDuration(m) == read(m, ADDRESS_TSTEP)

getStallGuardResult(m) == ReturningField(read(m, ADDRESS_SG_RESULT), 0, 16)

getPwmScaleSum(m) == ReturningField(read(m, ADDRESS_PWM_SCALE), 0, 8)

getPwmScaleAuto(m) == ReturningField(read(m, ADDRESS_PWM_SCALE), 16, 9)

getPwmOffsetAuto(m) == ReturningField(read(m, ADDRESS_PWM_AUTO), 0, 8)

getPwmGradientAuto(m) == ReturningField(read(m, ADDRESS_PWM_AUTO), 16, 8)

getMicrostepCounter(m) == ReturningField(read(m, ADDRESS_MSCNT), 0, 16)

-----------------------------------------------------------------------------
(* Initialization *)

setOperationModeToSerial(m, serial_address) ==
  writeStoredGlobalConfig(
    [m EXCEPT !.serial_address_ = serial_address,
              !.global_config_ =
                 Set(Set(Set(Set(ZeroWord, F_i_scale_analog, 0), F_pdn_disable, 1),
                         F_mstep_reg_select, 1),
                     F_multistep_filt, 1)])

setRegistersToDefaults(m) ==
  LET Stmt(i, s) ==
        CASE i = 1 ->
               [s EXCEPT !.driver_current_ =
                  Set(Set(Set(ZeroWord, F_ihold, IHOLD_DEFAULT), F_irun, IRUN_DEFAULT),
                      F_iholddelay, IHOLDDELAY_DEFAULT)]
          [] i = 2 -> write(s, ADDRESS_IHOLD_IRUN, s.driver_current_)
          [] i = 3 ->
               [s EXCEPT !.chopper_config_ =
                  Set(Set(Set(Set(CHOPPER_CONFIG_DEFAULT, F_tbl, TBL_DEFAULT),
                              F_hend, HEND_DEFAULT),
                          F_hstart, HSTART_DEFAULT),
                      F_toff, TOFF_DEFAULT)]
          [] i = 4 -> write(s, ADDRESS_CHOPCONF, s.chopper_config_)
          [] i = 5 -> [s EXCEPT !.pwm_config_ = PWM_CONFIG_DEFAULT]
          [] i = 6 -> write(s, ADDRESS_PWMCONF, s.pwm_config_)
          [] i = 7 -> [s EXCEPT !.cool_config_ = W32(COOLCONF_DEFAULT)]
          [] i = 8 -> write(s, ADDRESS_COOLCONF, s.cool_config_)
          [] i = 9 -> write(s, ADDRESS_TPOWERDOWN, W32(TPOWERDOWN_DEFAULT))
          [] i = 10 -> write(s, ADDRESS_TPWMTHRS, W32(TPWMTHRS_DEFAULT))
          [] i = 11 -> write(s, ADDRESS_VACTUAL, W32(VACTUAL_DEFAULT))
          [] i = 12 -> write(s, ADDRESS_TCOOLTHRS, W32(TCOOLTHRS_DEFAULT))
          [] i = 13 -> write(s, ADDRESS_SGTHRS, W32(SGTHRS_DEFAULT))
          [] i = 14 -> write(s, ADDRESS_COOLCONF, W32(COOLCONF_DEFAULT))
  IN Sequence(Stmt, 14, m)

\* minimizeMotorCurrent() that leaves the hold current as it is
minimizeMotorCurrentRunOnly(m) ==
  writeStoredDriverCurrent(
    [m EXCEPT !.driver_current_ = Set(@, F_irun, CURRENT_SETTING_MIN)])

minimizeMotorCurrent(m) ==
  writeStoredDriverCurrent(
    [m EXCEPT !.driver_current_ =
       Set(Set(@, F_irun, CURRENT_SETTING_MIN), F_ihold, CURRENT_SETTING_MIN)])

initialize(m, serial_address) ==
  LET Stmt(i, s) ==
        CASE i = 1 -> [s EXCEPT !.huart_ = TRUE]
          [] i = 2 -> setOperationModeToSerial(s, serial_address)
          [] i = 3 -> setRegistersToDefaults(s)
          [] i = 4 -> clearDriveError(s)
          [] i = 5 -> minimizeMotorCurrent(s)
          [] i = 6 -> disable(s)
          [] i = 7 -> disableAutomaticCurrentScaling(s)
          [] i = 8 -> disableAutomaticGradientAdaptation(s)
  IN Sequence(Stmt, 8, m)

setup(m, serial_address) == initialize(m, serial_address)

-----------------------------------------------------------------------------
(* The state machine: one action per public method *)

\* what an indeterminate (never assigned) register union may hold
Garbage == {ZeroWord, OnesWord}

\* the arguments the calls are made with
SerialAddresses == {SERIAL_ADDRESS_0}
Exponents == {0, 4}
Microsteps == {1, 16, 1000}
Percents == {0, 100}
HoldPercents == {50}
StandstillModes == {0, 2}
Amplitudes == {200}
ReplyDelays == {3, 200}
Velocities == {-1, 1000}
Thresholds == {70000}
Increments == {3}
CoolStepThresholds == {<<0, 2>>, <<5, 200>>}
CurrentTriples == {<<100, 50, 50>>}

\* the line may misbehave during the call that comes next
Faulty == calls + setups < MaxFaultyOps

\* the transmit call of an API call that fails: none (0) or one of the first
FailAts == IF Faulty THEN 0..MaxFailAt ELSE {0}

\* how the reads of an API call are answered
Replies == IF Faulty THEN ReplyKinds ELSE {"chip"}

\* how a read after the first is answered: there is one only when the first
\* was answered with the chip's whole reply
LaterReplies(l) == IF l = <<0, "chip">> THEN Replies ELSE {"silent"}

NoRet == "void"

Caches ==
  [global_config_ |-> global_config_, chopper_config_ |-> chopper_config_,
   pwm_config_ |-> pwm_config_, driver_current_ |-> driver_current_,
   cool_config_ |-> cool_config_, cool_step_enabled_ |-> cool_step_enabled_,
   rx |-> rx, hw |-> hw, enable_pin |-> enable_pin]

\* the instance, the chip and the line at the start of an API call during
\* which transmit call fail_at fails, the first read is answered as r1 and
\* any later read as r2
Start(fail_at, r1, r2) ==
  [global_config_ |-> global_config_, chopper_config_ |-> chopper_config_,
   pwm_config_ |-> pwm_config_, driver_current_ |-> driver_current_,
   cool_config_ |-> cool_config_, cool_step_enabled_ |-> cool_step_enabled_,
   hardware_enable_port_ |-> hardware_enable_port_,
   serial_address_ |-> serial_address_, toff_ |-> toff_, huart_ |-> huart_,
   hw |-> hw, rx |-> rx, stale |-> 0,
   enable_pin |-> enable_pin, echo_bus |-> echo_bus,
   tx_failed |-> tx_failed, rd_failed |-> rd_failed,
   fail_at |-> fail_at, r1 |-> r1, r2 |-> r2, ntx |-> 0, nrd |-> 0,
   cur |-> NewTxn("none", 0, ZeroWord, 0), log |-> <<>>, ret |-> NoRet]

\* the state the call leaves behind; r is what the call made of the instance,
\* the chip and the line
Commit(name, arg, m) ==
  \E r \in {m} :
    /\ global_config_' = r.global_config_
    /\ chopper_config_' = r.chopper_config_
    /\ pwm_config_' = r.pwm_config_
    /\ driver_current_' = r.driver_current_
    /\ cool_config_' = r.cool_config_
    /\ cool_step_enabled_' = r.cool_step_enabled_
    /\ hardware_enable_port_' = r.hardware_enable_port_
    /\ serial_address_' = r.serial_address_
    /\ toff_' = r.toff_
    /\ huart_' = r.huart_
    /\ hw' = r.hw
    /\ rx' = r.rx
    /\ enable_pin' = r.enable_pin
    /\ echo_bus' = echo_bus
    /\ last_call' = name
    /\ last_arg' = (name :> arg)
    /\ ret' = (name :> r.ret)
    /\ log' = r.log
    /\ pre' = Caches
    /\ tx_failed' = r.tx_failed
    /\ rd_failed' = r.rd_failed
    /\ calls' = IF name = "setup" THEN calls ELSE calls + 1
    /\ setups' = IF name = "setup" THEN setups + 1 ELSE setups
    /\ UNCHANGED bus_vars

\* toff_, which no statement of robot.hpp assigns: the operational, non-zero
\* driver off time that the class definition gives it
OperationalToff == TOFF_DEFAULT

Init ==
  /\ \E g \in Garbage :
       /\ global_config_ = g
       /\ chopper_config_ = g
       /\ pwm_config_ = g
       /\ driver_current_ = g
       /\ cool_config_ = Low16(g)
  /\ cool_step_enabled_ = FALSE
  /\ hardware_enable_port_ = FALSE
  /\ serial_address_ = SERIAL_ADDRESS_0
  /\ toff_ = OperationalToff
  /\ huart_ = FALSE
  /\ hw = [a \in CfgAddrs |-> NoValue]
  /\ rx = <<>>
  /\ enable_pin = "unknown"
  /\ echo_bus \in BOOLEAN
  /\ last_call = "none"
  /\ last_arg = ("none" :> 0)
  /\ ret = ("none" :> NoRet)
  /\ log = <<>>
  /\ pre = Caches
  /\ tx_failed = FALSE
  /\ rd_failed = FALSE
  /\ calls = 0
  /\ setups = 0
  /\ caller = NoCaller
  /\ bus_txn = [i \in Steppers |-> IdleTxn]
  /\ wire = <<>>
  /\ bus_calls = 0
  /\ bus_failures = 0

\* the run has room for one more call
Budget ==
  /\ calls + setups < MaxOps
  /\ (tx_failed \/ rd_failed) => calls < MaxCallsAfterFailure

\* a method that uses the serial line is called once setup has stored the
\* line's handle; a call through the null handle is not modelled
CanCall == huart_ /\ Budget

\* what the line does during a call that reads: a transmit call fails, and
\* the chip, which then gets no whole request, stays silent; or no transmit
\* call fails and the chip's reply is delivered in one of the ways of Replies
ReadFaults ==
  {<<f, "silent">> : f \in FailAts \ {0}} \cup {<<0, r>> : r \in Replies}

Call_setup ==
  /\ setups < MaxSetups
  /\ calls + setups < MaxOps
  /\ \E a \in SerialAddresses, f \in FailAts :
       Commit("setup", a, setup(Start(f, "silent", "silent"), a))

Call_setHardwareEnablePin ==
  /\ Budget
  /\ Commit("setHardwareEnablePin", 0, setHardwareEnablePin(Start(0, "silent", "silent")))

Call_getMicrostepsPerStep ==
  /\ Budget
  /\ Commit("getMicrostepsPerStep", 0, getMicrostepsPerStep(Start(0, "silent", "silent")))

Call_setAllCurrentValues ==
  /\ CanCall
  /\ \E a \in CurrentTriples, f \in FailAts :
       Commit("setAllCurrentValues", a,
              setAllCurrentValues(Start(f, "silent", "silent"), a[1], a[2], a[3]))

Call_enableCoolStep ==
  /\ CanCall
  /\ \E a \in CoolStepThresholds, f \in FailAts :
       Commit("enableCoolStep", a, enableCoolStep(Start(f, "silent", "silent"), a[1], a[2]))

Call_enable ==
  /\ CanCall
  /\ \E f \in FailAts : Commit("enable", 0, enable(Start(f, "silent", "silent")))

Call_disable ==
  /\ CanCall
  /\ \E f \in FailAts : Commit("disable", 0, disable(Start(f, "silent", "silent")))

Call_enableDoubleEdge ==
  /\ CanCall
  /\ \E f \in FailAts : Commit("enableDoubleEdge", 0, enableDoubleEdge(Start(f, "silent", "silent")))

Call_disableDoubleEdge ==
  /\ CanCall
  /\ \E f \in FailAts : Commit("disableDoubleEdge", 0, disableDoubleEdge(Start(f, "silent", "silent")))

Call_enableInverseMotorDirection ==
  /\ CanCall
  /\ \E f \in FailAts : Commit("enableInverseMotorDirection", 0, enableInverseMotorDirection(Start(f, "silent", "silent")))

Call_disableInverseMotorDirection ==
  /\ CanCall
  /\ \E f \in FailAts : Commit("disableInverseMotorDirection", 0, disableInverseMotorDirection(Start(f, "silent", "silent")))

Call_enableAutomaticCurrentScaling ==
  /\ CanCall
  /\ \E f \in FailAts : Commit("enableAutomaticCurrentScaling", 0, enableAutomaticCurrentScaling(Start(f, "silent", "silent")))

Call_disableAutomaticCurrentScaling ==
  /\ CanCall
  /\ \E f \in FailAts : Commit("disableAutomaticCurrentScaling", 0, disableAutomaticCurrentScaling(Start(f, "silent", "silent")))

Call_enableAutomaticGradientAdaptation ==
  /\ CanCall
  /\ \E f \in FailAts : Commit("enableAutomaticGradientAdaptation", 0, enableAutomaticGradientAdaptation(Start(f, "silent", "silent")))

Call_disableAutomaticGradientAdaptation ==
  /\ CanCall
  /\ \E f \in FailAts : Commit("disableAutomaticGradientAdaptation", 0, disableAutomaticGradientAdaptation(Start(f, "silent", "silent")))

Call_moveUsingStepDirInterface ==
  /\ CanCall
  /\ \E f \in FailAts : Commit("moveUsingStepDirInterface", 0, moveUsingStepDirInterface(Start(f, "silent", "silent")))

Call_enableStealthChop ==
  /\ CanCall
  /\ \E f \in FailAts : Commit("enableStealthChop", 0, enableStealthChop(Start(f, "silent", "silent")))

Call_disableStealthChop ==
  /\ CanCall
  /\ \E f \in FailAts : Commit("disableStealthChop", 0, disableStealthChop(Start(f, "silent", "silent")))

Call_disableCoolStep ==
  /\ CanCall
  /\ \E f \in FailAts : Commit("disableCoolStep", 0, disableCoolStep(Start(f, "silent", "silent")))

Call_enableAnalogCurrentScaling ==
  /\ CanCall
  /\ \E f \in FailAts : Commit("enableAnalogCurrentScaling", 0, enableAnalogCurrentScaling(Start(f, "silent", "silent")))

Call_disableAnalogCurrentScaling ==
  /\ CanCall
  /\ \E f \in FailAts : Commit("disableAnalogCurrentScaling", 0, disableAnalogCurrentScaling(Start(f, "silent", "silent")))

Call_useExternalSenseResistors ==
  /\ CanCall
  /\ \E f \in FailAts : Commit("useExternalSenseResistors", 0, useExternalSenseResistors(Start(f, "silent", "silent")))

Call_useInternalSenseResistors ==
  /\ CanCall
  /\ \E f \in FailAts : Commit("useInternalSenseResistors", 0, useInternalSenseResistors(Start(f, "silent", "silent")))

Call_clearReset ==
  /\ CanCall
  /\ \E f \in FailAts : Commit("clearReset", 0, clearReset(Start(f, "silent", "silent")))

Call_clearDriveError ==
  /\ CanCall
  /\ \E f \in FailAts : Commit("clearDriveError", 0, clearDriveError(Start(f, "silent", "silent")))

Call_setMicrostepsPerStepPowerOfTwo ==
  /\ CanCall
  /\ \E a \in Exponents, f \in FailAts :
       Commit("setMicrostepsPerStepPowerOfTwo", a, setMicrostepsPerStepPowerOfTwo(Start(f, "silent", "silent"), a))

Call_setMicrostepsPerStep ==
  /\ CanCall
  /\ \E a \in Microsteps, f \in FailAts :
       Commit("setMicrostepsPerStep", a, setMicrostepsPerStep(Start(f, "silent", "silent"), a))

Call_setRunCurrent ==
  /\ CanCall
  /\ \E a \in Percents, f \in FailAts :
       Commit("setRunCurrent", a, setRunCurrent(Start(f, "silent", "silent"), a))

Call_setHoldCurrent ==
  /\ CanCall
  /\ \E a \in HoldPercents, f \in FailAts :
       Commit("setHoldCurrent", a, setHoldCurrent(Start(f, "silent", "silent"), a))

Call_setHoldDelay ==
  /\ CanCall
  /\ \E a \in HoldPercents, f \in FailAts :
       Commit("setHoldDelay", a, setHoldDelay(Start(f, "silent", "silent"), a))

Call_setStandstillMode ==
  /\ CanCall
  /\ \E a \in StandstillModes, f \in FailAts :
       Commit("setStandstillMode", a, setStandstillMode(Start(f, "silent", "silent"), a))

Call_setPwmOffset ==
  /\ CanCall
  /\ \E a \in Amplitudes, f \in FailAts :
       Commit("setPwmOffset", a, setPwmOffset(Start(f, "silent", "silent"), a))

Call_setPwmGradient ==
  /\ CanCall
  /\ \E a \in Amplitudes, f \in FailAts :
       Commit("setPwmGradient", a, setPwmGradient(Start(f, "silent", "silent"), a))

Call_setPowerDownDelay ==
  /\ CanCall
  /\ \E a \in Amplitudes, f \in FailAts :
       Commit("setPowerDownDelay", a, setPowerDownDelay(Start(f, "silent", "silent"), a))

Call_setReplyDelay ==
  /\ CanCall
  /\ \E a \in ReplyDelays, f \in FailAts :
       Commit("setReplyDelay", a, setReplyDelay(Start(f, "silent", "silent"), a))

Call_moveAtVelocity ==
  /\ CanCall
  /\ \E a \in Velocities, f \in FailAts :
       Commit("moveAtVelocity", a, moveAtVelocity(Start(f, "silent", "silent"), a))

Call_setCoolStepDurationThreshold ==
  /\ CanCall
  /\ \E a \in Thresholds, f \in FailAts :
       Commit("setCoolStepDurationThreshold", a, setCoolStepDurationThreshold(Start(f, "silent", "silent"), a))

Call_setStealthChopDurationThreshold ==
  /\ CanCall
  /\ \E a \in Thresholds, f \in FailAts :
       Commit("setStealthChopDurationThreshold", a, setStealthChopDurationThreshold(Start(f, "silent", "silent"), a))

Call_setStallGuardThreshold ==
  /\ CanCall
  /\ \E a \in Amplitudes, f \in FailAts :
       Commit("setStallGuardThreshold", a, setStallGuardThreshold(Start(f, "silent", "silent"), a))

Call_setCoolStepCurrentIncrement ==
  /\ CanCall
  /\ \E a \in Increments, f \in FailAts :
       Commit("setCoolStepCurrentIncrement", a, setCoolStepCurrentIncrement(Start(f, "silent", "silent"), a))

Call_setCoolStepMeasurementCount ==
  /\ CanCall
  /\ \E a \in Increments, f \in FailAts :
       Commit("setCoolStepMeasurementCount", a, setCoolStepMeasurementCount(Start(f, "silent", "silent"), a))

Call_getVersion ==
  /\ CanCall
  /\ \E l \in ReadFaults : Commit("getVersion", 0, getVersion(Start(l[1], l[2], "silent")))

Call_isCommunicating ==
  /\ CanCall
  /\ \E l \in ReadFaults : Commit("isCommunicating", 0, isCommunicating(Start(l[1], l[2], "silent")))

Call_isSetupAndCommunicating ==
  /\ CanCall
  /\ \E l \in ReadFaults : Commit("isSetupAndCommunicating", 0, isSetupAndCommunicating(Start(l[1], l[2], "silent")))

Call_hardwareDisabled ==
  /\ CanCall
  /\ \E l \in ReadFaults : Commit("hardwareDisabled", 0, hardwareDisabled(Start(l[1], l[2], "silent")))

Call_getStatus ==
  /\ CanCall
  /\ \E l \in ReadFaults : Commit("getStatus", 0, getStatus(Start(l[1], l[2], "silent")))

Call_getGlobalStatus ==
  /\ CanCall
  /\ \E l \in ReadFaults : Commit("getGlobalStatus", 0, getGlobalStatus(Start(l[1], l[2], "silent")))

Call_getInterfaceTransmissionCounter ==
  /\ CanCall
  /\ \E l \in ReadFaults : Commit("getInterfaceTransmissionCounter", 0, getInterfaceTransmissionCounter(Start(l[1], l[2], "silent")))

Call_getInterstepDuration ==
  /\ CanCall
  /\ \E l \in ReadFaults : Commit("getInterstepDuration", 0, getInterstepDuration(Start(l[1], l[2], "silent")))

Call_getStallGuardResult ==
  /\ CanCall
  /\ \E l \in ReadFaults : Commit("getStallGuardResult", 0, getStallGuardResult(Start(l[1], l[2], "silent")))

Call_getPwmScaleSum ==
  /\ CanCall
  /\ \E l \in ReadFaults : Commit("getPwmScaleSum", 0, getPwmScaleSum(Start(l[1], l[2], "silent")))

Call_getPwmScaleAuto ==
  /\ CanCall
  /\ \E l \in ReadFaults : Commit("getPwmScaleAuto", 0, getPwmScaleAuto(Start(l[1], l[2], "silent")))

Call_getPwmOffsetAuto ==
  /\ CanCall
  /\ \E l \in ReadFaults : Commit("getPwmOffsetAuto", 0, getPwmOffsetAuto(Start(l[1], l[2], "silent")))

Call_getPwmGradientAuto ==
  /\ CanCall
  /\ \E l \in ReadFaults : Commit("getPwmGradientAuto", 0, getPwmGradientAuto(Start(l[1], l[2], "silent")))

Call_getMicrostepCounter ==
  /\ CanCall
  /\ \E l \in ReadFaults : Commit("getMicrostepCounter", 0, getMicrostepCounter(Start(l[1], l[2], "silent")))

Call_isCommunicatingButNotSetup ==
  /\ CanCall
  /\ \E l \in ReadFaults : \E r2 \in LaterReplies(l) :
       Commit("isCommunicatingButNotSetup", 0, isCommunicatingButNotSetup(Start(l[1], l[2], r2)))

Call_getSettings ==
  /\ CanCall
  /\ \E l \in ReadFaults : \E r2 \in LaterReplies(l) :
       Commit("getSettings", 0, getSettings(Start(l[1], l[2], r2)))

Next ==
  \/ Call_setup
  \/ Call_setHardwareEnablePin
  \/ Call_getMicrostepsPerStep
  \/ Call_setAllCurrentValues
  \/ Call_enableCoolStep
  \/ Call_enable
  \/ Call_disable
  \/ Call_enableDoubleEdge
  \/ Call_disableDoubleEdge
  \/ Call_enableInverseMotorDirection
  \/ Call_disableInverseMotorDirection
  \/ Call_enableAutomaticCurrentScaling
  \/ Call_disableAutomaticCurrentScaling
  \/ Call_enableAutomaticGradientAdaptation
  \/ Call_disableAutomaticGradientAdaptation
  \/ Call_moveUsingStepDirInterface
  \/ Call_enableStealthChop
  \/ Call_disableStealthChop
  \/ Call_disableCoolStep
  \/ Call_enableAnalogCurrentScaling
  \/ Call_disableAnalogCurrentScaling
  \/ Call_useExternalSenseResistors
  \/ Call_useInternalSenseResistors
  \/ Call_clearReset
  \/ Call_clearDriveError
  \/ Call_setMicrostepsPerStepPowerOfTwo
  \/ Call_setMicrostepsPerStep
  \/ Call_setRunCurrent
  \/ Call_setHoldCurrent
  \/ Call_setHoldDelay
  \/ Call_setStandstillMode
  \/ Call_setPwmOffset
  \/ Call_setPwmGradient
  \/ Call_setPowerDownDelay
  \/ Call_setReplyDelay
  \/ Call_moveAtVelocity
  \/ Call_setCoolStepDurationThreshold
  \/ Call_setStealthChopDurationThreshold
  \/ Call_setStallGuardThreshold
  \/ Call_setCoolStepCurrentIncrement
  \/ Call_setCoolStepMeasurementCount
  \/ Call_getVersion
  \/ Call_isCommunicating
  \/ Call_isSetupAndCommunicating
  \/ Call_hardwareDisabled
  \/ Call_getStatus
  \/ Call_getGlobalStatus
  \/ Call_getInterfaceTransmissionCounter
  \/ Call_getInterstepDuration
  \/ Call_getStallGuardResult
  \/ Call_getPwmScaleSum
  \/ Call_getPwmScaleAuto
  \/ Call_getPwmOffsetAuto
  \/ Call_getPwmGradientAuto
  \/ Call_getMicrostepCounter
  \/ Call_isCommunicatingButNotSetup
  \/ Call_getSettings

Spec == Init /\ [][Next]_vars

-----------------------------------------------------------------------------
(* The instances of Robot on the one serial line, byte by byte *)

\* the calling context (Robot::init, Robot::recv_command) is single-threaded:
\* a method of an instance is called only when the thread of control is in
\* no method of an instance
CallerFree == caller = NoCaller

\* write() / read() is entered on instance i: the datagram is built and, for
\* a read, the receive buffer cleared; no byte has gone out yet
BeginTransaction(i, kind) ==
  /\ bus_calls < MaxBusCalls
  /\ caller' = i
  /\ bus_calls' = bus_calls + 1
  /\ bus_txn' = [bus_txn EXCEPT ![i] =
       [kind |-> kind, stage |-> "transmit", id |-> bus_calls + 1,
        sent |-> 0, whole |-> TRUE, got |-> 0]]
  /\ UNCHANGED <<wire, bus_failures>>
  /\ UNCHANGED instance_vars

BusWriteCall ==
  \E i \in Steppers : CallerFree /\ BeginTransaction(i, "write")

BusReadCall ==
  \E i \in Steppers : CallerFree /\ BeginTransaction(i, "read")

\* where the transaction t stands after one more blocking transmit call: a
\* write goes through all its bytes whatever the status; a read leaves the
\* loop at the first failure, for the receive of the reply, and waits for the
\* echo after the last byte
AfterTransmit(t, ok) ==
  IF t.kind = "write"
    THEN IF t.sent + 1 = WRITE_READ_REPLY_DATAGRAM_SIZE THEN "done" ELSE "transmit"
  ELSE IF ~ok THEN "reply"
  ELSE IF t.sent + 1 = READ_REQUEST_DATAGRAM_SIZE THEN "echo"
  ELSE "transmit"

\* HAL_UART_Transmit of the next byte, which is back when the byte is out or
\* the call has failed
BusTransmitByte ==
  \E i \in Steppers, ok \in BOOLEAN :
    /\ bus_txn[i].stage = "transmit"
    /\ ~ok => bus_failures < MaxBusFailures
    /\ bus_txn' = [bus_txn EXCEPT ![i].sent = @ + 1,
                                  ![i].whole = @ /\ ok,
                                  ![i].stage = AfterTransmit(bus_txn[i], ok)]
    /\ wire' = IF ok THEN Append(wire, <<i, bus_txn[i].id>>) ELSE wire
    /\ bus_failures' = IF ok THEN bus_failures ELSE bus_failures + 1
    /\ UNCHANGED <<caller, bus_calls>>
    /\ UNCHANGED instance_vars

\* the receive call for the echo ends, with the echo or in a timeout
BusEchoWait ==
  \E i \in Steppers :
    /\ bus_txn[i].stage = "echo"
    /\ bus_txn' = [bus_txn EXCEPT ![i].stage = "reply"]
    /\ UNCHANGED <<caller, wire, bus_calls, bus_failures>>
    /\ UNCHANGED instance_vars

\* the chip puts a byte of its reply on the line, while the read whose
\* request went out whole waits
BusReplyByte ==
  \E i \in Steppers :
    /\ bus_txn[i].kind = "read"
    /\ bus_txn[i].stage \in {"echo", "reply"}
    /\ bus_txn[i].whole /\ bus_txn[i].sent = READ_REQUEST_DATAGRAM_SIZE
    /\ bus_txn[i].got < WRITE_READ_REPLY_DATAGRAM_SIZE
    /\ bus_txn' = [bus_txn EXCEPT ![i].got = @ + 1]
    /\ wire' = Append(wire, <<i, bus_txn[i].id>>)
    /\ UNCHANGED <<caller, bus_calls, bus_failures>>
    /\ UNCHANGED instance_vars

\* the receive call for the reply ends, with the reply or in a timeout
BusReplyWaitEnds ==
  \E i \in Steppers :
    /\ bus_txn[i].stage = "reply"
    /\ bus_txn' = [bus_txn EXCEPT ![i].stage = "done"]
    /\ UNCHANGED <<caller, wire, bus_calls, bus_failures>>
    /\ UNCHANGED instance_vars

\* a transmit that hands the byte over and is back before the byte is out
ReturnsAtOnce(t) == t.stage # "idle"

\* write() / read() is back at its caller: every transmit and receive call
\* of the transaction t has ended
Returns(t) == t.stage = "done"

BusReturn ==
  \E i \in Steppers :
    /\ caller = i
    /\ Returns(bus_txn[i])
    /\ caller' = NoCaller
    /\ UNCHANGED <<bus_txn, wire, bus_calls, bus_failures>>
    /\ UNCHANGED instance_vars

NextBus ==
  \/ BusWriteCall
  \/ BusReadCall
  \/ BusTransmitByte
  \/ BusEchoWait
  \/ BusReplyByte
  \/ BusReplyWaitEnds
  \/ BusReturn

\* the three instances as constructed; what the single instance of Spec
\* holds plays no part here and is fixed
InitBus == Init /\ global_config_ = ZeroWord /\ ~echo_bus

SpecBus == InitBus /\ [][NextBus]_vars

-----------------------------------------------------------------------------
(* What the claims speak of *)

\* the cached register of address register_address in the caches c
CachedAt(c, register_address) ==
  CASE register_address = ADDRESS_GCONF -> c.global_config_
    [] register_address = ADDRESS_CHOPCONF -> c.chopper_config_
    [] register_address = ADDRESS_PWMCONF -> c.pwm_config_
    [] register_address = ADDRESS_IHOLD_IRUN -> c.driver_current_
    [] register_address = ADDRESS_COOLCONF -> c.cool_config_

\* the words w1 and w2 agree in every bit that lies in none of the fields
SameOutside(w1, w2, fields) ==
  \A i \in 0..(BITS_PER_BYTE * DATA_SIZE - 1) :
    (\A f \in fields : i < f[1] \/ i >= f[1] + f[2]) => Bit(w1, i) = Bit(w2, i)

\* the setters of cached registers: the register each is about and the
\* bit-fields of it that it sets
Targets ==
  [enableAnalogCurrentScaling |-> <<ADDRESS_GCONF, {F_i_scale_analog}>>,
   disableAnalogCurrentScaling |-> <<ADDRESS_GCONF, {F_i_scale_analog}>>,
   useExternalSenseResistors |-> <<ADDRESS_GCONF, {F_internal_rsense}>>,
   useInternalSenseResistors |-> <<ADDRESS_GCONF, {F_internal_rsense}>>,
   enableStealthChop |-> <<ADDRESS_GCONF, {F_enable_spread_cycle}>>,
   disableStealthChop |-> <<ADDRESS_GCONF, {F_enable_spread_cycle}>>,
   enableInverseMotorDirection |-> <<ADDRESS_GCONF, {F_shaft}>>,
   disableInverseMotorDirection |-> <<ADDRESS_GCONF, {F_shaft}>>,
   enable |-> <<ADDRESS_CHOPCONF, {F_toff}>>,
   disable |-> <<ADDRESS_CHOPCONF, {F_toff}>>,
   setMicrostepsPerStep |-> <<ADDRESS_CHOPCONF, {F_mres}>>,
   setMicrostepsPerStepPowerOfTwo |-> <<ADDRESS_CHOPCONF, {F_mres}>>,
   enableDoubleEdge |-> <<ADDRESS_CHOPCONF, {F_double_edge}>>,
   disableDoubleEdge |-> <<ADDRESS_CHOPCONF, {F_double_edge}>>,
   setStandstillMode |-> <<ADDRESS_PWMCONF, {F_freewheel}>>,
   enableAutomaticCurrentScaling |-> <<ADDRESS_PWMCONF, {F_pwm_autoscale}>>,
   disableAutomaticCurrentScaling |-> <<ADDRESS_PWMCONF, {F_pwm_autoscale}>>,
   enableAutomaticGradientAdaptation |-> <<ADDRESS_PWMCONF, {F_pwm_autograd}>>,
   disableAutomaticGradientAdaptation |-> <<ADDRESS_PWMCONF, {F_pwm_autograd}>>,
   setPwmOffset |-> <<ADDRESS_PWMCONF, {F_pwm_offset}>>,
   setPwmGradient |-> <<ADDRESS_PWMCONF, {F_pwm_grad}>>,
   setRunCurrent |-> <<ADDRESS_IHOLD_IRUN, {F_irun}>>,
   setHoldCurrent |-> <<ADDRESS_IHOLD_IRUN, {F_ihold}>>,
   setHoldDelay |-> <<ADDRESS_IHOLD_IRUN, {F_iholddelay}>>,
   setAllCurrentValues |-> <<ADDRESS_IHOLD_IRUN, {F_irun, F_ihold, F_iholddelay}>>,
   enableCoolStep |-> <<ADDRESS_COOLCONF, {F_semin, F_semax}>>,
   disableCoolStep |-> <<ADDRESS_COOLCONF, {F_semin}>>,
   setCoolStepCurrentIncrement |-> <<ADDRESS_COOLCONF, {F_seup}>>,
   setCoolStepMeasurementCount |-> <<ADDRESS_COOLCONF, {F_sedn}>>]

CachedSetters == DOMAIN Targets

\* the setters that go through writeStoredDriverCurrent
CurrentSetters == {"setRunCurrent", "setHoldCurrent", "setHoldDelay", "setAllCurrentValues"}

\* the setters of registers the instance keeps no copy of
UncachedSetters ==
  {"setPowerDownDelay", "setReplyDelay", "moveAtVelocity", "moveUsingStepDirInterface",
   "setCoolStepDurationThreshold", "setStealthChopDurationThreshold",
   "setStallGuardThreshold", "clearReset", "clearDriveError"}

Setters == CachedSetters \cup UncachedSetters

Getters ==
  {"getSettings", "getStatus", "getGlobalStatus", "getVersion", "isCommunicating",
   "isSetupAndCommunicating", "isCommunicatingButNotSetup", "hardwareDisabled",
   "getMicrostepsPerStep", "getInterfaceTransmissionCounter", "getInterstepDuration",
   "getStallGuardResult", "getPwmScaleSum", "getPwmScaleAuto", "getPwmOffsetAuto",
   "getPwmGradientAuto", "getMicrostepCounter"}

\* the call left the cached registers of these addresses as they were
Kept(addresses) == \A a \in addresses : CachedAt(Caches, a) = CachedAt(pre, a)

\* the first transmit call of the transaction that failed; 0 when none did
FirstFailed(txn) ==
  IF \A k \in DOMAIN txn.tx : txn.tx[k][2] THEN 0
  ELSE CHOOSE k \in DOMAIN txn.tx :
         ~txn.tx[k][2] /\ \A j \in 1..(k - 1) : txn.tx[j][2]

\* no transaction of the run has failed: no transmit call, and no read, which
\* fails when its reply does not come whole or is not the register's content
NothingFailed == ~tx_failed /\ ~rd_failed

-----------------------------------------------------------------------------
(* C1: the transactions of one setup / initialize *)

\* the registers the claim lists, in its order
InitializeRegisters ==
  <<ADDRESS_GCONF,
    ADDRESS_IHOLD_IRUN, ADDRESS_CHOPCONF, ADDRESS_PWMCONF, ADDRESS_COOLCONF,
    ADDRESS_TPOWERDOWN, ADDRESS_TPWMTHRS, ADDRESS_VACTUAL, ADDRESS_TCOOLTHRS,
    ADDRESS_SGTHRS, ADDRESS_COOLCONF,
    ADDRESS_GSTAT, ADDRESS_IHOLD_IRUN, ADDRESS_CHOPCONF,
    ADDRESS_PWMCONF, ADDRESS_PWMCONF>>

\* the transactions of the call are writes to exactly those registers in
\* that order, the GSTAT write with drv_err set, the last CHOPCONF write with
\* toff disabled, the last two PWMCONF writes with automatic current scaling
\* and then also automatic gradient adaptation off
InitializeSequence(transactions) ==
  /\ Len(transactions) = Len(InitializeRegisters)
  /\ \A i \in DOMAIN transactions :
       /\ transactions[i].kind = "write"
       /\ transactions[i].reg = InitializeRegisters[i]
  /\ \E i \in DOMAIN transactions :
       /\ transactions[i].reg = ADDRESS_GSTAT
       /\ Get(transactions[i].data, F_gstat_drv_err) = 1
       /\ Get(transactions[i + 2].data, F_toff) = TOFF_DISABLE
       /\ Get(transactions[i + 3].data, F_pwm_autoscale) = STEPPER_DRIVER_FEATURE_OFF
       /\ Get(transactions[i + 4].data, F_pwm_autograd) = STEPPER_DRIVER_FEATURE_OFF

\* C1.  Every call of setup / initialize issues write transactions and no
\* read transaction, in this order: GCONF; then IHOLD_IRUN, CHOPCONF,
\* PWMCONF, COOLCONF, TPOWERDOWN, TPWMTHRS, VACTUAL, TCOOLTHRS, SGTHRS,
\* COOLCONF; then GSTAT with drv_err set; then IHOLD_IRUN; then CHOPCONF with
\* toff disabled; then only the two PWMCONF writes that turn automatic current
\* scaling and automatic gradient adaptation off.
C1_InitializeWritesInOrder ==
  last_call = "setup" => InitializeSequence(log)

\* the first setup of an instance, and any setup made while the cool-step
\* flag is clear, issues exactly that sequence
C1_InitializeWritesInOrderWhenCoolStepFlagClear ==
  (last_call = "setup" /\ ~pre.cool_step_enabled_) => InitializeSequence(log)

\* a setup made while the cool-step flag is set (initialize does not clear
\* it) issues one write more: minimizeMotorCurrent writes COOLCONF after
\* IHOLD_IRUN
C1_ReinitializeWritesCoolConfAgain ==
  (last_call = "setup" /\ pre.cool_step_enabled_) =>
    /\ Len(log) = Len(InitializeRegisters) + 1
    /\ \E i \in DOMAIN log :
         /\ log[i].reg = ADDRESS_GSTAT
         /\ log[i + 1].reg = ADDRESS_IHOLD_IRUN
         /\ log[i + 2].reg = ADDRESS_COOLCONF
         /\ log[i + 3].reg = ADDRESS_CHOPCONF

-----------------------------------------------------------------------------
(* C2: the cached registers and the registers of the chip *)

\* C2 as claimed.  In any run without a transmit failure, after every
\* completed setter call or initialize call, each of the five cached
\* configuration registers equals the value most recently written to the
\* chip's register of that address.
C2_CacheEqualsHardware ==
  (~tx_failed /\ last_call \in Setters \cup {"setup"}) =>
    \A a \in CfgAddrs : CachedAt(Caches, a) = hw[a]

\* C2, amended.  In any run in which no transaction has failed (no transmit
\* call, and no read by timing out or by returning something other than the
\* register's content), after every completed setter call or initialize
\* call, the cached GCONF, CHOPCONF, PWMCONF and IHOLD_IRUN equal the value
\* most recently written to the chip's register, and so does the cached
\* COOLCONF in every field other than seimin, and in seimin too while the
\* cool-step flag is set.
C2_CacheEqualsHardwareButSeimin ==
  (NothingFailed /\ last_call \in Setters \cup {"setup"}) =>
    /\ \A a \in CfgAddrs \ {ADDRESS_COOLCONF} : CachedAt(Caches, a) = hw[a]
    /\ hw[ADDRESS_COOLCONF] # NoValue
    /\ SameOutside(cool_config_, hw[ADDRESS_COOLCONF], {F_seimin})
    /\ cool_step_enabled_ => cool_config_ = hw[ADDRESS_COOLCONF]

\* a current setter has changed seimin while cool step is enabled, and
\* COOLCONF was written again; nothing has failed
C2_Witness ==
  /\ NothingFailed
  /\ last_call = "setRunCurrent"
  /\ cool_step_enabled_
  /\ Get(cool_config_, F_seimin) # Get(pre.cool_config_, F_seimin)
  /\ hw[ADDRESS_COOLCONF] = cool_config_
  /\ hw[ADDRESS_COOLCONF] # pre.hw[ADDRESS_COOLCONF]

-----------------------------------------------------------------------------
(* C3: a setter and the other cached registers *)

\* C3 as claimed.  Every setter changes fields of one cached register only:
\* after the call every other cached configuration register is as it was
\* before the call.
C3_OtherRegistersKept ==
  /\ last_call \in CachedSetters => Kept(CfgAddrs \ {Targets[last_call][1]})
  /\ last_call \in UncachedSetters => Kept(CfgAddrs)

\* C3, amended.  Every setter changes fields of one cached register only,
\* except that the four current setters (setRunCurrent, setHoldCurrent,
\* setHoldDelay, setAllCurrentValues), which are about IHOLD_IRUN, also set
\* the seimin field of the cached COOLCONF: after the call every other field
\* of every other cached configuration register is as it was before the call.
C3_OtherRegistersKeptButSeimin ==
  /\ last_call \in CachedSetters \ CurrentSetters =>
       Kept(CfgAddrs \ {Targets[last_call][1]})
  /\ last_call \in CurrentSetters =>
       /\ Kept(CfgAddrs \ {ADDRESS_IHOLD_IRUN, ADDRESS_COOLCONF})
       /\ SameOutside(cool_config_, pre.cool_config_, {F_seimin})
  /\ last_call \in UncachedSetters => Kept(CfgAddrs)

\* a current setter has changed its field of IHOLD_IRUN and the seimin field
\* of COOLCONF, whose other fields had been set before
C3_Witness ==
  /\ last_call \in CurrentSetters
  /\ driver_current_ # pre.driver_current_
  /\ cool_config_ # pre.cool_config_
  /\ Get(pre.cool_config_, F_semin) # SEMIN_OFF

-----------------------------------------------------------------------------
(* C4: a setter and the other fields of its register *)

\* C4.  Within the cached register a setter is about, only the bit-fields
\* that setter sets change: every other bit of that cached register is as it
\* was before the call, whatever setter calls preceded, and the value the
\* call writes to the chip's register is the whole cached register, so it
\* carries the fields that were kept.
C4_OtherFieldsKept ==
  last_call \in CachedSetters =>
    /\ SameOutside(CachedAt(Caches, Targets[last_call][1]),
                   CachedAt(pre, Targets[last_call][1]), Targets[last_call][2])
    /\ log[1].kind = "write"
    /\ log[1].reg = Targets[last_call][1]
    /\ log[1].data = CachedAt(Caches, Targets[last_call][1])

\* setHoldCurrent has changed ihold after an earlier setter call had set
\* irun, and the IHOLD_IRUN written carries that irun
C4_Witness ==
  /\ last_call = "setHoldCurrent"
  /\ NothingFailed
  /\ Get(driver_current_, F_ihold) # Get(pre.driver_current_, F_ihold)
  /\ Get(driver_current_, F_irun) = CURRENT_SETTING_MAX
  /\ Get(hw[ADDRESS_IHOLD_IRUN], F_irun) = CURRENT_SETTING_MAX

-----------------------------------------------------------------------------
(* C5: the getters and the cached registers *)

\* C5 as claimed.  Every getter leaves all five cached configuration
\* registers unchanged, whatever the chip replies and also when a read times
\* out.
C5_GettersKeepCaches ==
  last_call \in Getters => Kept(CfgAddrs)

\* C5, amended.  Every getter other than getSettings leaves all five cached
\* configuration registers unchanged, whatever the chip replies and also when
\* a read times out.  getSettings leaves the cached IHOLD_IRUN and COOLCONF
\* unchanged, and the cached GCONF, CHOPCONF and PWMCONF too when its read of
\* the identification register does not return the chip's version; when it
\* does, getSettings reads GCONF, CHOPCONF and PWMCONF and stores what each
\* read returns (zero when the read times out) in the cached register.
C5_GettersKeepCachesButGetSettings ==
  /\ last_call \in Getters \ {"getSettings"} => Kept(CfgAddrs)
  /\ last_call = "getSettings" =>
       /\ Kept({ADDRESS_IHOLD_IRUN, ADDRESS_COOLCONF})
       /\ ~ret[last_call].is_communicating => Kept(CfgAddrs)
       /\ ret[last_call].is_communicating =>
            /\ <<log[2].kind, log[3].kind, log[4].kind>> = <<"read", "read", "read">>
            /\ <<log[2].reg, log[3].reg, log[4].reg>> =
                 <<ADDRESS_GCONF, ADDRESS_CHOPCONF, ADDRESS_PWMCONF>>
            /\ global_config_ = log[2].value
            /\ chopper_config_ = log[3].value
            /\ pwm_config_ = log[4].value

\* getSettings has found the chip communicating, its later reads have timed
\* out, and the cached registers it stored them in are zero now
C5_Witness ==
  /\ last_call = "getSettings"
  /\ ret[last_call].is_communicating
  /\ log[2].reply = "timeout"
  /\ pre.chopper_config_ # ZeroWord
  /\ chopper_config_ = ZeroWord

-----------------------------------------------------------------------------
(* C6, C7: a transmit call that fails *)

\* the read and the write transactions of the last call in which a transmit
\* call failed
FailedTransmits(kind) ==
  {i \in DOMAIN log : log[i].kind = kind /\ FirstFailed(log[i]) # 0}

\* C6.  In a read transaction in which the transmit of a byte of the request
\* fails, the transaction is aborted at once: no further byte of the request
\* is handed to a transmit call, and no receive call is made afterwards,
\* neither for the echo nor for the reply.
C6_ReadAbortsAtFailedTransmit ==
  \A i \in FailedTransmits("read") :
    /\ Len(log[i].tx) = FirstFailed(log[i])
    /\ log[i].echo = "none"
    /\ log[i].reply = "none"

\* what the read does after the failed transmit: it sends no further byte and
\* skips the wait for the echo, but makes the receive call for the reply,
\* which ends in a timeout, and returns zero
C6_ReadStillWaitsForReply ==
  \A i \in FailedTransmits("read") :
    /\ Len(log[i].tx) = FirstFailed(log[i])
    /\ log[i].echo = "none"
    /\ log[i].reply = "timeout"
    /\ log[i].value = ZeroWord

\* C7.  In a write transaction in which the transmit of a byte of the
\* datagram fails, the transaction aborts: no later byte of the datagram is
\* handed to a transmit call, and none is handed to one twice.
C7_WriteAbortsAtFailedTransmit ==
  \A i \in FailedTransmits("write") :
    Len(log[i].tx) = FirstFailed(log[i])

\* what the write does after the failed transmit: it hands every byte of the
\* datagram to a transmit call, once, and the chip does not take the datagram
C7_WriteSendsEveryByteOnce ==
  \A i \in DOMAIN log :
    log[i].kind = "write" =>
      /\ Len(log[i].tx) = WRITE_READ_REPLY_DATAGRAM_SIZE
      /\ \A k \in DOMAIN log[i].tx :
           log[i].tx[k][1] = WriteDatagram(serial_address_, log[i].reg, log[i].data)[k]
      /\ (FirstFailed(log[i]) # 0 /\ Len(log) = 1 /\ log[i].reg \in CfgAddrs) =>
           hw[log[i].reg] = pre.hw[log[i].reg]

-----------------------------------------------------------------------------
(* C8, C9: the value a read returns *)

\* C8.  A read transaction whose receive call for the reply does not end with
\* the whole reply datagram returns zero, and the call that made it returns to
\* its caller; the value is the one a read returns whose reply carries an
\* all-zero payload.
C8_ReadWithoutReplyReturnsZero ==
  /\ \A i \in DOMAIN log :
       (log[i].kind = "read" /\ log[i].reply # "ok") =>
          /\ log[i].value = ZeroWord
          /\ log[i].value = DecodeReply(ReplyDatagram(log[i].reg, ZeroWord))
  /\ (last_call = "getInterstepDuration" /\ log[1].reply # "ok") =>
       ret[last_call] = ZeroWord

\* the request of a read went out whole, part of the reply came within the
\* window, and the read has returned
C8_Witness ==
  \E i \in DOMAIN log :
    /\ log[i].kind = "read"
    /\ RequestSent(log[i])
    /\ log[i].reply = "timeout"
    /\ Len(log[i].reply_buf) > 0
    /\ log[i].value = ZeroWord

\* C9.  A read transaction drains every byte pending in the receive path
\* before it hands the first byte of its request to a transmit call: the
\* receive path is empty then, no byte of the buffer the returned value is
\* decoded from was pending when the transaction began, and a value that is
\* decoded is decoded from the reply datagram of the register the request
\* names, which came after the request.
C9_ReadDrainsBeforeRequest ==
  \A i \in DOMAIN log :
    log[i].kind = "read" =>
      /\ log[i].drained = log[i].pending
      /\ log[i].unread = 0
      /\ log[i].reply_stale = 0
      /\ log[i].reply = "ok" =>
           /\ RequestSent(log[i])
           /\ log[i].reply_buf = ReplyDatagram(log[i].reg, log[i].value)

\* a read began with the echo of earlier writes pending, and returned the
\* content of the chip's reply
C9_Witness ==
  \E i \in DOMAIN log :
    /\ log[i].kind = "read"
    /\ log[i].pending >= WRITE_READ_REPLY_DATAGRAM_SIZE
    /\ log[i].reply = "ok"
    /\ log[i].value # ZeroWord
    /\ log[i].value = DecodeReply(log[i].reply_buf)

-----------------------------------------------------------------------------
(* C10: the instances on the shared line *)

\* the transaction of instance i is in flight: a write until its last byte
\* is out, a read from its first request byte to the end of its reply wait
InFlight(i) == bus_txn[i].stage \in {"transmit", "echo", "reply"}

-----------------------------------------------------------------------------
(* C11, C12: getSettings when the chip does not identify itself *)

\* the identification read of the last call did not return the version
\* signature: it returned another value, or zero after a timeout
NotIdentified ==
  /\ last_call = "getSettings"
  /\ Get(log[1].value, F_version) # VERSION

\* C11.  When the identification read of getSettings does not return the
\* expected version signature (a wrong value, or zero after a timeout),
\* getSettings reports the chip as not communicating and makes no further read
\* transaction: the one transaction of the call is the read of IOIN, and the
\* cached registers are as they were before the call.
C11_GetSettingsStopsAfterIdentification ==
  NotIdentified =>
    /\ ~ret[last_call].is_communicating
    /\ Len(log) = 1
    /\ log[1].kind = "read"
    /\ log[1].reg = ADDRESS_IOIN
    /\ Kept(CfgAddrs)

\* getSettings got a whole reply with a wrong version while the cached
\* registers held what setup and a setter left in them
C11_Witness ==
  /\ NotIdentified
  /\ log[1].reply = "ok"
  /\ log[1].value = OnesWord
  /\ setups > 0
  /\ chopper_config_ # ZeroWord

\* the Settings value with every derived field zeroed or disabled; the
\* default standstill mode is the first enumerator, 0
DisabledSettings ==
  [is_communicating |-> FALSE,
   is_setup |-> FALSE,
   software_enabled |-> FALSE,
   microsteps_per_step |-> 0,
   inverse_motor_direction_enabled |-> FALSE,
   stealth_chop_enabled |-> FALSE,
   standstill_mode |-> 0,
   irun_percent |-> 0,
   irun_register_value |-> 0,
   ihold_percent |-> 0,
   ihold_register_value |-> 0,
   iholddelay_percent |-> 0,
   iholddelay_register_value |-> 0,
   automatic_current_scaling_enabled |-> FALSE,
   automatic_gradient_adaptation_enabled |-> FALSE,
   pwm_offset |-> 0,
   pwm_gradient |-> 0,
   cool_step_enabled |-> FALSE,
   analog_current_scaling_enabled |-> FALSE,
   internal_sense_resistors_enabled |-> FALSE]

\* C12.  When the chip does not respond with the expected signature, every
\* derived field of the Settings value that getSettings returns is the zeroed
\* or disabled default (false, 0, the default mode), whatever the cached
\* registers hold after the setter calls made earlier.
C12_SettingsDefaultWhenNotIdentified ==
  NotIdentified => ret[last_call] = DisabledSettings

\* what getSettings returns then: the default in every field but
\* standstill_mode, which is the freewheel field of the cached PWMCONF
C12_SettingsDefaultButStandstillMode ==
  NotIdentified =>
    ret[last_call] =
      [DisabledSettings EXCEPT !.standstill_mode = Get(pwm_config_, F_freewheel)]

\* getSettings reports a standstill mode other than the default although the
\* chip did not identify itself
C12_StandstillModeFromCache ==
  /\ NotIdentified
  /\ ret[last_call].standstill_mode # DisabledSettings.standstill_mode

-----------------------------------------------------------------------------
(* C13: the configuration initialize leaves *)

\* C13.  Right after initialize returns, the instance is in the disabled,
\* minimal-current configuration: the cached CHOPCONF has toff at the disabled
\* sentinel, the cached IHOLD_IRUN has irun and ihold at CURRENT_SETTING_MIN,
\* the cached PWMCONF has automatic current scaling and automatic gradient
\* adaptation off, and the cached GCONF has pdn_disable set; whatever setter
\* calls or earlier initialize calls came before, and whatever the line did.
C13_InitializeLeavesDisabledMinimalCurrent ==
  last_call = "setup" =>
    /\ Get(chopper_config_, F_toff) = TOFF_DISABLE
    /\ Get(driver_current_, F_irun) = CURRENT_SETTING_MIN
    /\ Get(driver_current_, F_ihold) = CURRENT_SETTING_MIN
    /\ Get(pwm_config_, F_pwm_autoscale) = STEPPER_DRIVER_FEATURE_OFF
    /\ Get(pwm_config_, F_pwm_autograd) = STEPPER_DRIVER_FEATURE_OFF
    /\ Get(global_config_, F_pdn_disable) = 1

\* a second initialize has returned; before it the instance was enabled, or
\* ran at more than the least current, or scaled its current automatically
C13_Witness ==
  /\ last_call = "setup"
  /\ setups = MaxSetups
  /\ \/ Get(pre.chopper_config_, F_toff) # TOFF_DISABLE
     \/ Get(pre.driver_current_, F_irun) # CURRENT_SETTING_MIN
     \/ Get(pre.pwm_config_, F_pwm_autoscale) # STEPPER_DRIVER_FEATURE_OFF

-----------------------------------------------------------------------------
(* C14: enable and disable *)

\* the one transaction of the last call is the write of the cached CHOPCONF
WroteChopperConfig ==
  /\ Len(log) = 1
  /\ log[1].kind = "write"
  /\ log[1].reg = ADDRESS_CHOPCONF
  /\ log[1].data = chopper_config_

\* the enable line after the last call: at the level the call drives it to
\* when a pin was configured, and as it was when none was
EnableLine(level) ==
  enable_pin = IF hardware_enable_port_ THEN level ELSE pre.enable_pin

\* C14.  disable sets the cached toff to TOFF_DISABLE and writes CHOPCONF;
\* enable sets toff to a non-zero operational value and writes CHOPCONF; the
\* enable line is driven (high on enable, low on disable) only if an enable
\* pin was configured, and otherwise the calls change only the register
\* state.  After any sequence of enable / disable calls the cached toff is
\* non-zero exactly when the last of them was enable.
C14_EnableAndDisable ==
  /\ last_call = "disable" =>
       /\ Get(chopper_config_, F_toff) = TOFF_DISABLE
       /\ WroteChopperConfig
       /\ EnableLine("reset")
  /\ last_call = "enable" =>
       /\ Get(chopper_config_, F_toff) = toff_
       /\ Get(chopper_config_, F_toff) # TOFF_DISABLE
       /\ WroteChopperConfig
       /\ EnableLine("set")
  /\ last_call \in {"enable", "disable"} =>
       /\ Kept(CfgAddrs \ {ADDRESS_CHOPCONF})
       /\ (Get(chopper_config_, F_toff) # TOFF_DISABLE) <=> (last_call = "enable")

\* enable was called with an enable pin configured, on an instance that was
\* disabled: the line is high and toff is the operational value
C14_Witness ==
  /\ last_call = "enable"
  /\ hardware_enable_port_
  /\ enable_pin = "set"
  /\ Get(pre.chopper_config_, F_toff) = TOFF_DISABLE
  /\ Get(chopper_config_, F_toff) = TOFF_DEFAULT

-----------------------------------------------------------------------------
(* C15: a write and the receive path *)

\* the bytes pending in the receive path once the write transaction txn has
\* ended, if it has consumed none: those pending when it began and, on a line
\* that echoes, one for every byte that went out, up to what the path holds
PendingAfterWrite(txn) ==
  LET echoed == IF echo_bus
                  THEN Cardinality({k \in DOMAIN txn.tx : txn.tx[k][2]})
                  ELSE 0
  IN IF txn.pending + echoed > MaxRx THEN MaxRx ELSE txn.pending + echoed

\* the bytes pending when transaction i of the last call has ended: those the
\* next transaction finds, or those there are now
PendingAfter(i) == IF i < Len(log) THEN log[i + 1].pending ELSE Len(rx)

\* C15.  A write transaction never reads from the receive path: during
\* write(register, data) no receive call is made, neither to drain nor for an
\* echo or a reply, and no byte pending in the receive path is consumed,
\* whether or not the line echoes the transmitted bytes.
C15_WriteMakesNoReceiveCall ==
  /\ \A i \in DOMAIN log :
       log[i].kind = "write" =>
         /\ log[i].drained = 0
         /\ log[i].echo = "none"
         /\ log[i].reply = "none"
         /\ log[i].reply_buf = <<>>
         /\ PendingAfter(i) = PendingAfterWrite(log[i])
  /\ last_call \in Setters \cup {"setup"} =>
       /\ Len(rx) >= Len(pre.rx)
       /\ SubSeq(rx, 1, Len(pre.rx)) = pre.rx

\* on a line that echoes, a write began with the echo of the write before it
\* pending, and the write after it found those bytes and its own echo
C15_Witness ==
  /\ echo_bus
  /\ Len(log) >= 3
  /\ log[2].kind = "write"
  /\ log[2].pending = WRITE_READ_REPLY_DATAGRAM_SIZE
  /\ log[3].pending > log[2].pending
  /\ SubSeq(rx, 1, WRITE_READ_REPLY_DATAGRAM_SIZE) =
       WriteDatagram(serial_address_, log[1].reg, log[1].data)

-----------------------------------------------------------------------------
(* C16: the CRC byte of the datagrams sent *)

\* the sum modulo 2, bit by bit, of two numbers below 2^16
Xor16(a, b) == Xor8(a % 256, b % 256) + 256 * Xor8(a \div 256, b \div 256)

\* the byte with its bits in the opposite order
Reflect(byte) ==
  LET B(k) == ((byte \div Pow2(k)) % 2) * Pow2(BITS_PER_BYTE - 1 - k)
  IN ((B(0) + B(1)) + (B(2) + B(3))) + ((B(4) + B(5)) + (B(6) + B(7)))

\* the remainder of the polynomial a, of degree below 16 with coefficients
\* modulo 2, on division by x^8 + x^2 + x + 1 (0x07 with its leading term)
PolynomialRemainder(a) ==
  LET RECURSIVE Reduce(_, _)
      Reduce(r, d) ==
        CASE d < BITS_PER_BYTE -> r
          [] r = r ->
               Reduce(IF (r \div Pow2(d)) % 2 = 1
                        THEN Xor16(r, (256 + 7) * Pow2(d - BITS_PER_BYTE))
                        ELSE r,
                      d - 1)
  IN Reduce(a, 2 * BITS_PER_BYTE - 1)

\* the CRC-8 of a sequence of bytes: the remainder, on division by the
\* polynomial, of the message times x^8, where the message is the bits of the
\* bytes in the order sent, the least-significant bit of each byte first;
\* initial value 0
Crc8(bytes) ==
  LET RECURSIVE Fold(_, _)
      Fold(crc, i) ==
        CASE i > Len(bytes) -> crc
          [] crc = crc ->
               Fold(PolynomialRemainder(256 * Xor8(crc, Reflect(bytes[i]))), i + 1)
  IN Fold(0, 1)

\* the bytes handed to the transmit calls of the transaction txn, in order
Transmitted(txn) == [k \in DOMAIN txn.tx |-> txn.tx[k][1]]

DatagramSize(txn) ==
  IF txn.kind = "write" THEN WRITE_READ_REPLY_DATAGRAM_SIZE
  ELSE READ_REQUEST_DATAGRAM_SIZE

\* C16.  The last byte of every datagram the core transmits, the 8-byte write
\* datagram and the 4-byte read request, is the CRC-8 of all the bytes of the
\* datagram before it, computed with initial value 0 and polynomial 0x07 over
\* the bits of each byte least-significant first in a register of 8 bits; the
\* CRC byte itself is not part of what the CRC is computed of.
C16_LastByteIsCrc ==
  \A i \in DOMAIN log :
    Len(log[i].tx) = DatagramSize(log[i]) =>
      Transmitted(log[i])[DatagramSize(log[i])] =
        Crc8(SubSeq(Transmitted(log[i]), 1, DatagramSize(log[i]) - 1))

\* a call has sent the request to read IOIN, 05 00 06 with CRC 6F, after
\* write datagrams of which one has a CRC other than 0
C16_Witness ==
  /\ \E i \in DOMAIN log :
       /\ log[i].kind = "read"
       /\ Transmitted(log[i]) = <<5, 0, 6, 111>>
  /\ hw[ADDRESS_CHOPCONF] # NoValue
  /\ WriteDatagram(serial_address_, ADDRESS_CHOPCONF, hw[ADDRESS_CHOPCONF])
       [WRITE_READ_REPLY_DATAGRAM_SIZE] # 0

-----------------------------------------------------------------------------
(* C17: the microstep resolution, set and got *)

\* the uint16_t values setMicrostepsPerStep is called with
MicrostepsRequests ==
  (0..MaxMicrostepsRequest)
    \cup {63, 64, 65, 100, 127, 128, 129, 200, 255, 256, 257, 511, 512, 1000,
          32768, 65535}

MicrostepsSetup ==
  /\ setups = 0
  /\ \E a \in SerialAddresses :
       Commit("setup", a, setup(Start(0, "silent", "silent"), a))

MicrostepsSet ==
  /\ huart_
  /\ calls < MaxMicrostepsCalls
  /\ \E n \in MicrostepsRequests :
       Commit("setMicrostepsPerStep", n,
              setMicrostepsPerStep(Start(0, "silent", "silent"), n))

MicrostepsGet ==
  /\ calls < MaxMicrostepsCalls
  /\ Commit("getMicrostepsPerStep", 0,
            getMicrostepsPerStep(Start(0, "silent", "silent")))

NextMicrosteps ==
  \/ MicrostepsSetup
  \/ MicrostepsSet
  \/ MicrostepsGet

SpecMicrosteps == Init /\ [][NextMicrosteps]_vars

\* the request clamped into [1, 256]
ClampedMicrosteps(n) ==
  IF n < MICROSTEPS_PER_STEP_MIN THEN MICROSTEPS_PER_STEP_MIN
  ELSE IF n > MICROSTEPS_PER_STEP_MAX THEN MICROSTEPS_PER_STEP_MAX
  ELSE n

\* the resolution codes of the exponents 0..8
ResolutionCodes ==
  <<MRES_001, MRES_002, MRES_004, MRES_008, MRES_016, MRES_032, MRES_064,
    MRES_128, MRES_256>>

ValidExponents == 0..(Len(ResolutionCodes) - 1)

Distance(a, b) == IF a < b THEN b - a ELSE a - b

\* the exponents of the valid powers of two nearest to c
NearestExponents(c) ==
  {e \in ValidExponents :
     \A k \in ValidExponents : Distance(c, Pow2(e)) <= Distance(c, Pow2(k))}

\* the exponent of the largest valid power of two that is not above c
ExponentNotAbove(c) ==
  CHOOSE e \in ValidExponents :
    Pow2(e) <= c /\ (e + 1 \in ValidExponents => c < Pow2(e + 1))

\* setMicrostepsPerStep(n) has left the resolution code of exponent e, and
\* getMicrostepsPerStep called now returns 2^e
ResolutionIs(e) ==
  /\ Get(chopper_config_, F_mres) = ResolutionCodes[e + 1]
  /\ log[1].kind = "write"
  /\ log[1].reg = ADDRESS_CHOPCONF
  /\ Get(log[1].data, F_mres) = ResolutionCodes[e + 1]
  /\ getMicrostepsPerStep(Start(0, "silent", "silent")).ret = Pow2(e)

\* C17 as claimed.  setMicrostepsPerStep(n) sets the resolution code of the
\* exponent e where: for n = 2^k with k in 0..8, e = k; an n out of range is
\* first clamped into [1, 256]; a value that is not a power of two goes to
\* the nearest valid power of two.  getMicrostepsPerStep afterwards returns
\* 2^e.
C17_MicrostepsToNearestPowerOfTwo ==
  last_call = "setMicrostepsPerStep" =>
    \E e \in NearestExponents(ClampedMicrosteps(last_arg[last_call])) :
      ResolutionIs(e)

\* C17, amended.  setMicrostepsPerStep(n) sets the resolution code of the
\* exponent e where: for n = 2^k with k in 0..8, e = k; an n out of range
\* counts as clamped into [1, 256]; a value that is not a power of two goes
\* to the largest power of two below it.  getMicrostepsPerStep afterwards
\* returns 2^e, and whenever it is called it returns the power of two of the
\* cached resolution code.
C17_MicrostepsToPowerOfTwoNotAbove ==
  /\ last_call = "setMicrostepsPerStep" =>
       ResolutionIs(ExponentNotAbove(ClampedMicrosteps(last_arg[last_call])))
  /\ last_call = "getMicrostepsPerStep" =>
       /\ ret[last_call] \in {Pow2(e) : e \in ValidExponents}
       /\ \A e \in ValidExponents :
            Get(chopper_config_, F_mres) = ResolutionCodes[e + 1] =>
              ret[last_call] = Pow2(e)
       /\ Kept(CfgAddrs)

\* 7 microsteps were requested, which is nearer to 8 than to 4, and the
\* resolution set is 4
C17_Witness ==
  /\ last_call = "setMicrostepsPerStep"
  /\ last_arg[last_call] = 7
  /\ Get(chopper_config_, F_mres) = MRES_004
  /\ Get(pre.chopper_config_, F_mres) # MRES_004

-----------------------------------------------------------------------------
(* The functions of the parameter mapping layer and of the codec, applied  *)
(* to the values of their argument types                                   *)

\* the bytes the words given to reverseData are made of
ByteSamples == {0, 1, 18, 128, 255}

WordSamples ==
  {<<b0, b1, b2, b3>> : b0 \in ByteSamples, b1 \in ByteSamples,
                         b2 \in ByteSamples, b3 \in ByteSamples}

\* the function name is called with arg and returns value
Apply(name, arg, value) ==
  /\ last_call' = name
  /\ last_arg' = (name :> arg)
  /\ ret' = (name :> value)
  /\ UNCHANGED <<global_config_, chopper_config_, pwm_config_, driver_current_,
                 cool_config_, cool_step_enabled_, hardware_enable_port_,
                 serial_address_, toff_, huart_, hw, rx, enable_pin, echo_bus,
                 log, pre, tx_failed, rd_failed, calls, setups>>
  /\ UNCHANGED bus_vars

Apply_percentToCurrentSetting ==
  \E percent \in Byte :
    Apply("percentToCurrentSetting", percent, percentToCurrentSetting(percent))

Apply_percentToHoldDelaySetting ==
  \E percent \in Byte :
    Apply("percentToHoldDelaySetting", percent, percentToHoldDelaySetting(percent))

Apply_reverseData ==
  \E data \in WordSamples :
    Apply("reverseData", data, reverseData(data))

NextFunctions ==
  \/ Apply_percentToCurrentSetting
  \/ Apply_percentToHoldDelaySetting
  \/ Apply_reverseData

SpecFunctions == Init /\ [][NextFunctions]_vars

-----------------------------------------------------------------------------
(* C18: percent to register setting *)

\* the result of the call lies in low..high, is low for 0 percent and high
\* from 100 percent on, and is not below the result for any smaller percent
Saturating(PercentToSetting(_), low, high) ==
  LET percent == last_arg[last_call]
      setting == ret[last_call]
  IN /\ setting \in low..high
     /\ percent = PERCENT_MIN => setting = low
     /\ percent >= PERCENT_MAX => setting = high
     /\ \A smaller \in PERCENT_MIN..percent :
          PercentToSetting(smaller) <= setting

\* C18.  For every 8-bit input p, percentToCurrentSetting(p) and
\* percentToHoldDelaySetting(p) lie in the range of the register field (0..31
\* for a current, 0..15 for the hold delay); p = 0 gives the minimum, every
\* p >= 100 the maximum, and both functions are monotonic non-decreasing.
C18_PercentToSettingSaturates ==
  /\ last_call = "percentToCurrentSetting" =>
       Saturating(percentToCurrentSetting, CURRENT_SETTING_MIN, CURRENT_SETTING_MAX)
  /\ last_call = "percentToHoldDelaySetting" =>
       Saturating(percentToHoldDelaySetting, HOLD_DELAY_MIN, HOLD_DELAY_MAX)

\* a percent above 100 was given and the setting is the maximum
C18_Witness ==
  /\ last_call = "percentToHoldDelaySetting"
  /\ last_arg[last_call] = BYTE_MAX_VALUE
  /\ ret[last_call] = HOLD_DELAY_MAX

-----------------------------------------------------------------------------
(* C19: the byte reversal *)

\* C19.  reverseData is an involution on 32-bit values: reversing twice gives
\* the value back, and reverseData(x) is x with byte 0 swapped with byte 3 and
\* byte 1 with byte 2, every byte as it was.
C19_ReverseDataIsInvolution ==
  last_call = "reverseData" =>
    /\ reverseData(ret[last_call]) = last_arg[last_call]
    /\ ret[last_call] =
         <<last_arg[last_call][4], last_arg[last_call][3],
           last_arg[last_call][2], last_arg[last_call][1]>>

\* a word of four different bytes was reversed
C19_Witness ==
  /\ last_call = "reverseData"
  /\ last_arg[last_call] = <<1, 18, 128, 255>>
  /\ ret[last_call] = <<255, 128, 18, 1>>

-----------------------------------------------------------------------------
(* The transaction engine of one instance, call by call of the HAL *)

\* the instance whose transactions are followed
Engine == "stepper1_"

\* what the steps of the engine leave alone
engine_frame ==
  <<global_config_, chopper_config_, pwm_config_, driver_current_,
    cool_config_, cool_step_enabled_, hardware_enable_port_,
    serial_address_, toff_, huart_, hw, enable_pin, echo_bus,
    last_call, last_arg, ret, log, pre, tx_failed, rd_failed, calls, setups>>

EngineSetup ==
  /\ setups = 0
  /\ \E a \in SerialAddresses :
       Commit("setup", a, setup(Start(0, "silent", "silent"), a))

\* the datagram read() / write() builds: the request for IOIN, or the
\* datagram that writes the cached GCONF
EngineDatagram(kind) ==
  IF kind = "read" THEN ReadRequestDatagram(serial_address_, ADDRESS_IOIN)
  ELSE WriteDatagram(serial_address_, ADDRESS_GCONF, global_config_)

\* read() / write() is entered: the datagram is built; a read goes on to
\* clear the receive buffer, a write to send
EngineCall(kind) ==
  /\ huart_
  /\ caller = NoCaller
  /\ bus_calls < MaxBusCalls
  /\ caller' = Engine
  /\ bus_calls' = bus_calls + 1
  /\ bus_txn' = [bus_txn EXCEPT ![Engine] =
       [kind |-> kind, stage |-> IF kind = "read" THEN "drain" ELSE "transmit",
        id |-> bus_calls + 1, sent |-> 0, whole |-> TRUE, got |-> 0,
        datagram |-> EngineDatagram(kind)]]
  /\ UNCHANGED <<rx, wire, bus_failures>>
  /\ UNCHANGED engine_frame

EngineReadCall == EngineCall("read")

EngineWriteCall == EngineCall("write")

\* a receive call that is back without having taken a byte
DrainedNothing(pending) == pending

\* HAL_UART_Receive(huart_, &dummy, 1, 0) with RXNE set: the byte at the
\* head of the receive path is taken
Drained(pending) == Tail(pending)

\* one turn of the loop that clears the receive buffer
EngineDrainByte ==
  /\ bus_txn[Engine].stage = "drain"
  /\ rx # <<>>
  /\ rx' = Drained(rx)
  /\ UNCHANGED <<caller, bus_txn, wire, bus_calls, bus_failures>>
  /\ UNCHANGED engine_frame

\* RXNE is clear: the loop is left
EngineDrainEnds ==
  /\ bus_txn[Engine].stage = "drain"
  /\ rx = <<>>
  /\ bus_txn' = [bus_txn EXCEPT ![Engine].stage = "transmit"]
  /\ UNCHANGED <<caller, rx, wire, bus_calls, bus_failures>>
  /\ UNCHANGED engine_frame

\* HAL_UART_Transmit of the next byte of the datagram, with either status
EngineTransmitByte ==
  \E ok \in BOOLEAN :
    /\ bus_txn[Engine].stage = "transmit"
    /\ ~ok => bus_failures < MaxBusFailures
    /\ bus_txn' = [bus_txn EXCEPT ![Engine].sent = @ + 1,
                                  ![Engine].whole = @ /\ ok,
                                  ![Engine].stage = AfterTransmit(bus_txn[Engine], ok)]
    /\ rx' = IF ok /\ echo_bus
               THEN Arrive(rx, <<bus_txn[Engine].datagram[bus_txn[Engine].sent + 1]>>)
               ELSE rx
    /\ bus_failures' = IF ok THEN bus_failures ELSE bus_failures + 1
    /\ UNCHANGED <<caller, wire, bus_calls>>
    /\ UNCHANGED engine_frame

\* a blocking HAL_UART_Receive of size bytes is back: with the bytes, or at
\* its timeout with those that came
Received(pending, size) ==
  SubSeq(pending, (IF Len(pending) >= size THEN size ELSE Len(pending)) + 1,
         Len(pending))

EngineEchoWaitEnds ==
  /\ bus_txn[Engine].stage = "echo"
  /\ rx' = Received(rx, READ_REQUEST_DATAGRAM_SIZE)
  /\ bus_txn' = [bus_txn EXCEPT ![Engine].stage = "reply"]
  /\ UNCHANGED <<caller, wire, bus_calls, bus_failures>>
  /\ UNCHANGED engine_frame

EngineReplyWaitEnds ==
  /\ bus_txn[Engine].stage = "reply"
  /\ rx' = Received(rx, WRITE_READ_REPLY_DATAGRAM_SIZE)
  /\ bus_txn' = [bus_txn EXCEPT ![Engine].stage = "done"]
  /\ UNCHANGED <<caller, wire, bus_calls, bus_failures>>
  /\ UNCHANGED engine_frame

EngineReturn ==
  /\ caller = Engine
  /\ Returns(bus_txn[Engine])
  /\ caller' = NoCaller
  /\ UNCHANGED <<rx, bus_txn, wire, bus_calls, bus_failures>>
  /\ UNCHANGED engine_frame

\* the chip sends the next byte of its reply to a request that went out
\* whole; the read may have given up waiting by then
EngineReplyByte ==
  /\ bus_txn[Engine].kind = "read"
  /\ bus_txn[Engine].stage \in {"echo", "reply", "done"}
  /\ bus_txn[Engine].whole
  /\ bus_txn[Engine].sent = READ_REQUEST_DATAGRAM_SIZE
  /\ bus_txn[Engine].got < WRITE_READ_REPLY_DATAGRAM_SIZE
  /\ rx' = Arrive(rx, <<ReplyDatagram(ADDRESS_IOIN, Set(ZeroWord, F_version, VERSION))
                          [bus_txn[Engine].got + 1]>>)
  /\ bus_txn' = [bus_txn EXCEPT ![Engine].got = @ + 1]
  /\ UNCHANGED <<caller, wire, bus_calls, bus_failures>>
  /\ UNCHANGED engine_frame

\* a byte reaches the receive path that no transaction of the instance
\* caused, at any time
EngineStrayByte ==
  /\ huart_
  /\ Len(wire) < MaxStrayBytes
  /\ rx' = Arrive(rx, <<BYTE_MAX_VALUE>>)
  /\ wire' = Append(wire, <<NoCaller, 0>>)
  /\ UNCHANGED <<caller, bus_txn, bus_calls, bus_failures>>
  /\ UNCHANGED engine_frame

\* the steps the program takes: it goes on to its next statement, and a
\* blocking HAL call is back at its timeout at the latest
EngineStep ==
  \/ EngineDrainByte
  \/ EngineDrainEnds
  \/ EngineTransmitByte
  \/ EngineEchoWaitEnds
  \/ EngineReplyWaitEnds
  \/ EngineReturn

NextEngine ==
  \/ EngineSetup
  \/ EngineReadCall
  \/ EngineWriteCall
  \/ EngineStep
  \/ EngineReplyByte
  \/ EngineStrayByte

\* the instance as constructed, on a line that echoes or on one that does
\* not
InitEngine == Init /\ global_config_ = ZeroWord

SpecEngine == InitEngine /\ [][NextEngine]_vars /\ WF_vars(EngineStep)

-----------------------------------------------------------------------------
(* C20: every transaction ends *)

\* C20.  Every read transaction terminates: whatever is pending in the
\* receive path and whatever the line does (an echo or none, the chip
\* replying or silent, a transmit call failing), a call of read returns after
\* finitely many steps, its loop that clears the receive buffer included;
\* and every write transaction terminates, after at most one transmit call
\* for each byte of its datagram.
C20_TransactionsTerminate ==
  /\ (caller = Engine) ~> (caller = NoCaller)
  /\ [](bus_txn[Engine].sent <=
          IF bus_txn[Engine].kind = "write" THEN WRITE_READ_REPLY_DATAGRAM_SIZE
          ELSE READ_REQUEST_DATAGRAM_SIZE)

\* on a line that does not echo, a read is in the loop that clears the
\* receive buffer, with the reply that came too late for the read before it
\* and a stray byte pending
C20_Witness ==
  /\ ~echo_bus
  /\ caller = Engine
  /\ bus_txn[Engine].kind = "read"
  /\ bus_txn[Engine].stage = "drain"
  /\ bus_txn[Engine].id > 1
  /\ Len(rx) > WRITE_READ_REPLY_DATAGRAM_SIZE
  /\ wire # <<>>

-----------------------------------------------------------------------------
(* C21: a read on an echoing line, from request to value *)

\* the request of the read went out whole and the chip's whole reply came
\* within the reply window
AnsweredInFull(txn) ==
  /\ txn.kind = "read"
  /\ RequestSent(txn)
  /\ txn.answer \in {"chip", "ones"}

\* C21.  On a line that echoes, a read whose receive path was drained at its
\* start, whose request bytes were all transmitted and echoed, and whose
\* reply of eight bytes with payload v came whole within the reply window
\* returns exactly v: the wait for the echo took the four echoed request
\* bytes and the value is decoded from the reply datagram alone.  On a line
\* that does not echo the wait for the echo takes four bytes all the same:
\* the first four of the reply, so that the receive of the reply is left with
\* its last four.
C21_ReadReturnsPayloadOnEchoingLine ==
  \A i \in DOMAIN log :
    AnsweredInFull(log[i]) =>
      /\ log[i].unread = 0
      /\ log[i].echo = "ok"
      /\ echo_bus =>
           /\ log[i].reply = "ok"
           /\ log[i].reply_buf = ReplyDatagram(log[i].reg, log[i].payload)
           /\ <<log[i].reply_buf[4], log[i].reply_buf[5],
                log[i].reply_buf[6], log[i].reply_buf[7]>> =
              <<log[i].payload[4], log[i].payload[3],
                log[i].payload[2], log[i].payload[1]>>
           /\ log[i].value = log[i].payload
      /\ ~echo_bus =>
           /\ log[i].reply = "timeout"
           /\ log[i].reply_buf =
                SubSeq(ReplyDatagram(log[i].reg, log[i].payload),
                       READ_REQUEST_DATAGRAM_SIZE + 1, WRITE_READ_REPLY_DATAGRAM_SIZE)

\* on an echoing line a read that began with bytes pending returned the
\* payload of the chip's reply, a word whose four bytes are not all the same
C21_Witness ==
  /\ echo_bus
  /\ \E i \in DOMAIN log :
       /\ AnsweredInFull(log[i])
       /\ log[i].pending > 0
       /\ log[i].value = log[i].payload
       /\ log[i].value[1] # log[i].value[4]

-----------------------------------------------------------------------------
(* The codec: a datagram that write() transmits, read back as a reply *)

\* the register addresses written: those of the cached registers and the
\* highest that register_address:7 holds
RegisterAddresses == CfgAddrs \cup {2^7 - 1}

\* the bytes a transaction handed to its transmit calls, in order
TransmittedBytes(txn) == [k \in DOMAIN txn.tx |-> txn.tx[k][1]]

\* write(register_address, data) on a line where every transmit call
\* succeeds; the bytes it transmitted are then the buffer that the receive
\* of a reply ends HAL_OK with, and read() decodes them
Apply_write ==
  /\ calls < MaxCodecCalls
  /\ \E register_address \in RegisterAddresses, data \in WordSamples :
       LET w == write(Start(0, "silent", "silent"), register_address, data)
           bytes == TransmittedBytes(w.log[1])
       IN /\ last_call' = "write"
          /\ last_arg' = ("write" :> <<register_address, data>>)
          /\ ret' = ("write" :> [bytes |-> bytes, value |-> ReplyValue(TRUE, bytes)])
          /\ log' = w.log
          /\ calls' = calls + 1
  /\ UNCHANGED <<global_config_, chopper_config_, pwm_config_, driver_current_,
                 cool_config_, cool_step_enabled_, hardware_enable_port_,
                 serial_address_, toff_, huart_, hw, rx, enable_pin, echo_bus,
                 pre, tx_failed, rd_failed, setups>>
  /\ UNCHANGED bus_vars

NextCodec == Apply_write

SpecCodec == Init /\ [][NextCodec]_vars

-----------------------------------------------------------------------------
(* C22: the payload written is the payload read *)

\* C22.  Encoding and decoding of the payload are inverse: for every
\* register address and every 32-bit value d, the eight bytes that
\* write(register, d) transmits, presented as the reply datagram of a read,
\* make read return d; the payload is wire bytes 3..6 (counted from 0), the
\* most-significant byte of d first.
C22_WrittenPayloadReadsBack ==
  last_call = "write" =>
    /\ Len(ret[last_call].bytes) = WRITE_READ_REPLY_DATAGRAM_SIZE
    /\ \A k \in 1..DATA_SIZE :
         ret[last_call].bytes[3 + k] = last_arg[last_call][2][DATA_SIZE + 1 - k]
    /\ ret[last_call].value = last_arg[last_call][2]
    /\ ret[last_call].bytes[3] =
         (last_arg[last_call][1] % 128) + 128 * RW_WRITE
    /\ log[1].kind = "write" /\ log[1].data = last_arg[last_call][2]

\* a word of four different bytes was written to CHOPCONF and read back
C22_Witness ==
  /\ last_call = "write"
  /\ last_arg[last_call] = <<ADDRESS_CHOPCONF, <<1, 18, 128, 255>>>>
  /\ SubSeq(ret[last_call].bytes, 4, 7) = <<255, 128, 18, 1>>
  /\ ret[last_call].value = <<1, 18, 128, 255>>

-----------------------------------------------------------------------------
(* C23: the cool-step flag and the cached COOLCONF *)

\* C23.  In every reachable state of an instance the flag cool_step_enabled_
\* is true only if the field semin of the cached COOLCONF differs from
\* SEMIN_OFF; in particular the flag is false after construction and after
\* every initialize, which resets COOLCONF to its default.
C23_CoolStepFlagOnlyWithSemin ==
  /\ cool_step_enabled_ => Get(cool_config_, F_semin) # SEMIN_OFF
  /\ (calls + setups = 0) => ~cool_step_enabled_
  /\ last_call = "setup" => ~cool_step_enabled_

\* what the code keeps: the flag is true only with semin set for as long as
\* setup has not been called again, and is false after construction
C23_CoolStepFlagOnlyWithSeminUntilSetupAgain ==
  /\ (setups <= 1 /\ cool_step_enabled_) => Get(cool_config_, F_semin) # SEMIN_OFF
  /\ (calls + setups = 0) => ~cool_step_enabled_

\* setup was called on an instance whose flag was set: the thresholds of
\* the cached COOLCONF are back at their defaults and the flag is still set
C23_FlagSurvivesInitialize ==
  /\ last_call = "setup"
  /\ pre.cool_step_enabled_
  /\ Get(pre.cool_config_, F_semin) # SEMIN_OFF
  /\ cool_step_enabled_
  /\ Get(cool_config_, F_semin) = SEMIN_OFF
  /\ Get(cool_config_, F_semax) = Get(W32(COOLCONF_DEFAULT), F_semax)

=============================================================================
